---- MODULE Spec2Model ----
(***************************************************************************)
(* A model of the valuation pipeline of stock_app (portfolio_notify.py):   *)
(* the sliding-window RateLimiter, main() with its exit statuses,          *)
(* build_rows (currency normalisation, change metrics and totals), the     *)
(* text and HTML reporters, build_monthly_dataset and dataset_to_csv, the  *)
(* report's sorting script, the two price providers, and the ledger        *)
(* synchronisation of scripts/sync_portfolio_csv.py.                       *)
(*                                                                         *)
(* Numbers.  A Python float is modelled as an exact rational               *)
(* [k |-> "num", n, d] in lowest terms (d > 0); float("nan") is the value  *)
(* NaN, Python's None is the value None.  Rounding error of binary floats  *)
(* is not modelled; NaN propagation, None, zero and the order of the       *)
(* arithmetic are.                                                         *)
(*                                                                         *)
(* Time.  The RateLimiter's clock is counted in ticks of 0.05 s, the       *)
(* safety margin of acquire(); one second is TicksPerSecond ticks.         *)
(***************************************************************************)
EXTENDS Integers, Sequences, FiniteSets, TLC

(***************************************************************************)
(* Bounds of the model.                                                    *)
(***************************************************************************)
MaxLimit == 2
MaxPerSeconds == 1
MaxCalls == 4
MaxClock == 70
MaxHoldings == 2
MaxBars == 14

(***************************************************************************)
(* Program constants.                                                      *)
(***************************************************************************)
\* 0.05 s, the margin added to the sleep, is one tick: 20 ticks per second
TicksPerSecond == 20
Margin == 1
\* the values main() returns
ExitOk == 0
ExitError == 1
ExitEmpty == 2
ExitInterrupted == 130

VARIABLES
    \* ---- RateLimiter and the clock it reads
    limit,        \* RateLimiter.limit
    per_seconds,  \* RateLimiter.per_seconds, in ticks
    times,        \* RateLimiter._times
    clock,        \* the last value time.time() returned
    recorded,     \* every timestamp acquire() ever appended, in call order
    sleeps        \* how often the last acquire() slept

rlVars == <<limit, per_seconds, times, clock, recorded, sleeps>>

VARIABLES
    \* ---- which entry point runs, and where it stands
    entry,        \* the entry point that runs: "rate_limiter", "build_rows", "main", ...
    pc,           \* the position of the running function
    exc,          \* the exception that is propagating, "" for none
    \* ---- build_rows: its arguments, its locals and what its caller receives
    holdings,     \* List[Holding]
    prices,       \* Dict[str, float]: symbol -> price, None where the key is absent
    usd_jpy,      \* Optional[float]
    provider,     \* the provider object: its class and what its calls answer
    fx_prev,      \* fx_prev_day, fx_prev_month, fx_prev_year
    i,            \* index of the holding the for loop is at
    rows,         \* rows: List[Row]
    total_usd,
    total_jpy,
    name_cache,   \* name_cache: symbol -> company name
    calls,        \* the calls made to the provider so far: <<method, ticker>>
    ret           \* the value build_rows returned, if it returned

brVars == <<holdings, prices, usd_jpy, provider, fx_prev, i, rows, total_usd,
            total_jpy, name_cache, calls, ret>>

VARIABLES
    \* ---- main(): its locals and what the process shows to the outside
    args,          \* the parsed arguments, each fixed when main() first reads it
    cfg,           \* AppConfig
    fi,            \* index of the holding fetch_prices is at
    usd_jpy_rate,
    main_rows,     \* rows in main(), after the sort
    report,        \* the text report and its totals
    html_report,
    stdout,        \* what was printed on standard output
    stderr,        \* what was printed on standard error
    html_file,     \* the file --save-html names
    status,        \* the value main() returned, -1 while it runs
    failed_at      \* the step of main() that raised, "" for none

mainVars == <<args, cfg, fi, usd_jpy_rate, main_rows, report, html_report, stdout,
              stderr, html_file, status, failed_at>>

VARIABLES
    \* ---- build_monthly_dataset: its argument months, its locals, its result
    months,        \* the months argument
    fx_pairs,      \* the FX pair's monthly series: (label, close) pairs
    sers,          \* ser of each holding handled so far, in order
    mi,            \* index of the holding the for loop is at
    md_rows,       \* rows: List[Dict]
    dataset        \* the value returned, if it returned

mdVars == <<months, fx_pairs, sers, mi, md_rows, dataset>>

ctlVars == <<entry, pc, exc>>

VARIABLES
    \* ---- dataset_to_csv: the text it returned
    csv            \* the header line and the data lines, each a tuple of fields

csvVars == <<csv>>

VARIABLES
    \* ---- the report's script in the browser: one table.pf-table
    tbody,         \* the rows of the table body, in document order
    data_asc,      \* the header cell carrying data-asc, and its value
    indicator      \* the header cell whose sort indicator shows an arrow

domVars == <<tbody, data_asc, indicator>>

VARIABLES
    \* ---- AlphaVantageProvider: the call in progress and what it exchanged
    av_call,       \* the method called: "get_price", "get_fx_rate", "" for none
    av_trace,      \* acquire() calls and requests of the call, in order
    av_quote,      \* the response to the call's GLOBAL_QUOTE request
    av_daily,      \* the response to the call's TIME_SERIES_DAILY request
    av_fx,         \* the response to the call's CURRENCY_EXCHANGE_RATE request
    av_result,     \* what the call returned or raised
    req_times      \* the clock at each request the provider ever issued

avVars == <<av_call, av_trace, av_quote, av_daily, av_fx, av_result, req_times>>

VARIABLES
    \* ---- YFinanceProvider.get_price / get_fx_rate: one call
    yf_method,     \* the method called, "" for none
    yf_ticker,     \* what the sources of yf.Ticker(ticker) answer
    yf_consulted,  \* the sources _last_price has consulted, in order
    yf_result      \* what the call returned or raised

yfVars == <<yf_method, yf_ticker, yf_consulted, yf_result>>

VARIABLES
    \* ---- YFinanceProvider.previous_month_close / previous_year_close: one call
    pv_method,     \* the method called, "" for none
    pv_ticker,     \* what Ticker.history(period, interval="1mo") answers
    pv_result      \* what the call returned or raised

prevVars == <<pv_method, pv_ticker, pv_result>>

VARIABLES
    \* ---- scripts/sync_portfolio_csv.py: one run of main()
    sy_args,       \* the parsed arguments: mode and dry_run
    sy_file,       \* the rows of the CSV file
    ledger,        \* what the ledger behind /api/portfolio stores, by symbol
    ledger_before, \* the ledger when the run began
    csv_holdings,  \* csv_holdings: what read_csv returned
    to_delete,     \* to_delete: List[str]
    sy_k,          \* index of the entry the running for loop is at
    sy_requests,   \* the DELETE and POST requests sent, in order
    sy_stdout,     \* what was printed on standard output
    sy_status      \* the exit status of the process, -1 while it runs

syncVars == <<sy_args, sy_file, ledger, ledger_before, csv_holdings, to_delete, sy_k,
              sy_requests, sy_stdout, sy_status>>

moreVars == <<prevVars, syncVars>>

\* the state of the functions that are called on their own
extVars == <<csvVars, domVars, avVars, yfVars, moreVars>>

vars == <<rlVars, ctlVars, brVars, mainVars, mdVars, extVars>>

(***************************************************************************)
(* Python floats as exact rationals.                                       *)
(***************************************************************************)
Abs(x) == IF x < 0 THEN -x ELSE x

RECURSIVE GCD(_, _)
GCD(a, b) == IF b = 0 THEN a ELSE GCD(b, a % b)

Rat(n, d) ==
    LET s == IF d < 0 THEN -1 ELSE 1
        g == GCD(Abs(n), Abs(d))
    IN  [k |-> "num", n |-> (s * n) \div g, d |-> (s * d) \div g]

Num(n) == [k |-> "num", n |-> n, d |-> 1]
NaN == [k |-> "nan", n |-> 0, d |-> 1]
None == [k |-> "none", n |-> 0, d |-> 1]
\* the ZeroDivisionError a float division by zero raises
ZDE == [k |-> "zde", n |-> 0, d |-> 1]

\* x != x
IsNaN(x) == x.k = "nan"
IsNum(x) == x.k = "num"
IsZero(x) == x.k = "num" /\ x.n = 0
\* bool(x) of a float or None: None and 0.0 are falsy, nan is truthy
Truthy(x) == x.k = "nan" \/ (x.k = "num" /\ x.n # 0)
\* x or y
PyOr(x, y) == IF Truthy(x) THEN x ELSE y

Mul(a, b) ==
    IF a.k = "zde" \/ b.k = "zde" THEN ZDE
    ELSE IF a.k # "num" \/ b.k # "num" THEN NaN
    ELSE Rat(a.n * b.n, a.d * b.d)

Div(a, b) ==
    IF a.k = "zde" \/ b.k = "zde" THEN ZDE
    ELSE IF IsZero(b) THEN ZDE
    ELSE IF a.k # "num" \/ b.k # "num" THEN NaN
    ELSE Rat(a.n * b.d, a.d * b.n)

Sub(a, b) ==
    IF a.k = "zde" \/ b.k = "zde" THEN ZDE
    ELSE IF a.k # "num" \/ b.k # "num" THEN NaN
    ELSE Rat(a.n * b.d - b.n * a.d, a.d * b.d)

Add(a, b) ==
    IF a.k = "zde" \/ b.k = "zde" THEN ZDE
    ELSE IF a.k # "num" \/ b.k # "num" THEN NaN
    ELSE Rat(a.n * b.d + b.n * a.d, a.d * b.d)

(***************************************************************************)
(* RateLimiter (portfolio_notify.py, lines 84-106).                        *)
(***************************************************************************)
\* a window that never drops a timestamp
PruneKeepsAll(ts, now, per) == ts

\* [t for t in self._times if now - t < self.per_seconds]
Prune(ts, now, per) == SelectSeq(ts, LAMBDA t : now - t < per)

\* a sleep_for that forgets the window: only the margin is slept
SleepForMarginOnly(per, now, oldest) == Margin

\* sleep_for = self.per_seconds - (now - self._times[0]) + 0.05
SleepFor(per, now, oldest) == per - (now - oldest) + Margin

\* the time the caller spends between two acquire() calls
Gaps(per) == {0, 1, per - 1, per, per + 1}
\* a sleep lasts at least the time asked for; the clock does not go back
Overshoot == {0, 1}
Lag == {0, 1}

RLStart ==
    /\ limit \in 1..MaxLimit
    /\ per_seconds \in {s * TicksPerSecond : s \in 1..MaxPerSeconds}
    /\ times = <<>>
    /\ clock = 0
    /\ recorded = <<>>
    /\ sleeps = 0

\* the body of acquire(), entered `gap` ticks after the previous clock reading
acquire ==
    /\ Len(recorded) < MaxCalls
    /\ \E gap \in Gaps(per_seconds), over \in Overshoot, lag \in Lag :
        LET now1 == clock + gap
            t1 == Prune(times, now1, per_seconds)
            full == Len(t1) >= limit
            sleep_for == IF full THEN SleepFor(per_seconds, now1, t1[1]) ELSE 0
            slept == full /\ sleep_for > 0
            now2 == IF slept THEN now1 + sleep_for + over ELSE now1
            t2 == IF full THEN Prune(t1, now2, per_seconds) ELSE t1
            now3 == now2 + lag
        IN  /\ now3 <= MaxClock
            /\ times' = Append(t2, now3)
            /\ recorded' = Append(recorded, now3)
            /\ clock' = now3
            /\ sleeps' = IF slept THEN 1 ELSE 0
    /\ UNCHANGED <<limit, per_seconds>>

\* one acquire() call on a RateLimiter of its own
Acquire ==
    /\ acquire
    /\ UNCHANGED <<ctlVars, brVars, mainVars, mdVars, extVars>>

(***************************************************************************)
(* Holdings, prices and providers.                                         *)
(***************************************************************************)
Holding(sym, sh, ccy) == [symbol |-> sym, shares |-> sh, currency |-> ccy]

Symbols == {"AAPL", "7203.T", "SAP.DE"}
FxTicker == "USDJPY=X"

\* str.upper() on the currency codes that occur
Upper(c) ==
    CASE c = "usd" -> "USD"
      [] c = "jpy" -> "JPY"
      [] c = "eur" -> "EUR"
      [] OTHER -> c

\* (h.currency or "USD").upper(); currency None is written ""
Ccy(h) == Upper(IF h.currency = "" THEN "USD" ELSE h.currency)

\* the holdings build_rows is called with; currency "" is None
HoldingChoices ==
    { Holding("AAPL", Num(10), "USD"),
      Holding("AAPL", Rat(1, 2), "usd"),
      Holding("AAPL", Num(0), ""),
      Holding("7203.T", Num(5), "JPY"),
      Holding("7203.T", Num(2), "jpy"),
      Holding("SAP.DE", Num(3), "EUR") }

RECURSIVE SeqsUpTo(_, _)
SeqsUpTo(S, n) ==
    IF n = 0 THEN {<<>>}
    ELSE LET shorter == SeqsUpTo(S, n - 1)
         IN  shorter \cup {Append(q, x) : q \in shorter, x \in S}

\* the prices mapping: None marks a symbol that is no key of the dict
PriceChoices ==
    { [s \in Symbols |-> CASE s = "AAPL" -> a [] s = "7203.T" -> t [] OTHER -> Num(100)] :
        a \in {Num(150), None}, t \in {Num(3000), NaN} }

RateChoices == {None, Num(0), Num(150), Rat(1, 2), NaN}

\* What a provider's enrichment calls answer.  k = "raise" is a call that
\* raises; names are strings, "" for None and "raise" for a raising call.
Raise == [k |-> "raise", n |-> 0, d |-> 1]
Tickers == Symbols \cup {FxTicker}

Provider(kind, day, month, year, name, per) ==
    [kind |-> kind, previous_day_close |-> day, previous_month_close |-> month,
     previous_year_close |-> year, get_name |-> name, get_per |-> per]

NoAnswers == [t \in Tickers |-> None]
NoNames == [t \in Tickers |-> ""]

\* a provider without history, names or multiples (provider=None, Alpha Vantage)
PlainProvider(kind) == Provider(kind, NoAnswers, NoAnswers, NoAnswers, NoNames, NoAnswers)

YFinanceChoices ==
    { Provider("yfinance",
               [t \in Tickers |-> IF t = FxTicker THEN Num(100) ELSE Num(120)],
               [t \in Tickers |-> IF t = FxTicker THEN Num(125) ELSE Num(100)],
               [t \in Tickers |-> IF t = FxTicker THEN Num(0) ELSE Num(60)],
               [t \in Tickers |-> IF t = "AAPL" THEN "Apple Inc." ELSE ""],
               [t \in Tickers |-> IF t = "AAPL" THEN Num(30) ELSE None]),
      PlainProvider("yfinance"),
      Provider("yfinance",
               [t \in Tickers |-> IF t = FxTicker THEN Raise ELSE Num(120)],
               [t \in Tickers |-> IF t = FxTicker THEN Num(125) ELSE Raise],
               [t \in Tickers |-> Raise],
               [t \in Tickers |-> "raise"],
               [t \in Tickers |-> Raise]),
      Provider("yfinance",
               [t \in Tickers |-> IF t = FxTicker THEN Num(100) ELSE NaN],
               [t \in Tickers |-> IF t = FxTicker THEN NaN ELSE Num(0)],
               [t \in Tickers |-> IF t = FxTicker THEN None ELSE Num(60)],
               [t \in Tickers |-> IF t = "AAPL" THEN "Apple Inc." ELSE ""],
               [t \in Tickers |-> IF t = "AAPL" THEN NaN ELSE Num(12)]) }

ProviderChoices == {PlainProvider("none"), PlainProvider("alpha_vantage")} \cup YFinanceChoices

(***************************************************************************)
(* The exception handlers of main() (lines 1217-1222).                     *)
(***************************************************************************)
\* the except clauses of lines 1217-1222, entered from the step that raised
\* a handler that has no clause of its own for KeyboardInterrupt
StatusOfAnyException(e) == ExitError

\* except KeyboardInterrupt: return 130 / except Exception: return 1
StatusOf(e) == IF e = "KeyboardInterrupt" THEN ExitInterrupted ELSE ExitError

Handle(e, step) ==
    /\ exc' = e
    /\ failed_at' = step
    /\ stderr' = Append(stderr, IF e = "KeyboardInterrupt" THEN "interrupted" ELSE "error")
    /\ status' = StatusOf(e)
    /\ pc' = "done"

(***************************************************************************)
(* build_rows (portfolio_notify.py, lines 925-1041).                       *)
(***************************************************************************)
\* isinstance(provider, YFinanceProvider)
UseYf(prov) == prov.kind = "yfinance"

\* try: provider.previous_*_close("USDJPY=X") except Exception: None
FxPrevOf(prov, granularity) ==
    IF ~UseYf(prov) THEN None
    ELSE LET a == prov[granularity][FxTicker]
         IN  IF a.k = "raise" THEN None ELSE a

\* a pct that divides by the current price
PctOfCurrent(cur, prev) ==
    IF cur.k = "none" \/ prev.k = "none" \/ IsZero(prev) \/ IsNaN(prev) \/ IsNaN(cur)
    THEN NaN
    ELSE Div(Sub(cur, prev), cur)

\* pct(cur, prev)
Pct(cur, prev) ==
    IF cur.k = "none" \/ prev.k = "none" \/ IsZero(prev) \/ IsNaN(prev) \/ IsNaN(cur)
    THEN NaN
    ELSE Div(Sub(cur, prev), prev)

\* prices.get(h.symbol, float("nan"))
PriceOf(pr, sym) == IF pr[sym].k = "none" THEN NaN ELSE pr[sym]

\* a validation that lets every currency code through
AnyCurrencySupported(ccy) == TRUE

\* ccy in ("USD", "JPY")
CurrencySupported(ccy) == ccy \in {"USD", "JPY"}

\* a conversion that reports an unavailable or zero rate as a zero price
UsdPriceZeroWhenNoRate(ccy, price, rate) ==
    IF ccy = "USD" THEN price
    ELSE IF rate.k = "none" \/ IsZero(rate) THEN Num(0) ELSE Div(price, rate)

\* usd_price of lines 965-970
UsdPrice(ccy, price, rate) ==
    IF ccy = "USD" THEN price
    ELSE IF rate.k = "none" \/ IsZero(rate) THEN NaN ELSE Div(price, rate)

\* a conversion that divides where it has to multiply
JpyPriceDivides(ccy, price, rate) ==
    IF ccy = "USD" THEN (IF Truthy(rate) THEN Div(price, rate) ELSE NaN) ELSE price

\* jpy_price of lines 965-970
JpyPrice(ccy, price, rate) ==
    IF ccy = "USD" THEN Mul(price, PyOr(rate, NaN)) ELSE price

\* an accumulation that assigns instead of adding
AccumulateAssigns(total, value) == value

\* total += value
Accumulate(total, value) == Add(total, value)

NoChanges ==
    [usd_mom |-> NaN, usd_dod |-> NaN, jpy_mom |-> NaN, jpy_dod |-> NaN,
     usd_yoy |-> NaN, jpy_yoy |-> NaN]

\* a conversion of the previous close with today's rate
PrevOtherTodaysRate(ccy, prev, fxp) ==
    IF prev.k = "none" \/ usd_jpy.k = "none" \/ IsZero(usd_jpy) THEN None
    ELSE IF ccy = "USD" THEN Mul(prev, usd_jpy) ELSE Div(prev, usd_jpy)

\* the counterpart-currency previous close of lines 982-984 and 989-991
PrevOther(ccy, prev, fxp) ==
    IF prev.k = "none" \/ fxp.k = "none" \/ IsZero(fxp) THEN None
    ELSE IF ccy = "USD" THEN Mul(prev, fxp) ELSE Div(prev, fxp)

\* lines 974-999: the six change metrics of one holding
Changes(sym, ccy, usd_price, jpy_price, prov, fxp) ==
    IF ~UseYf(prov) THEN NoChanges
    ELSE LET pd == prov.previous_day_close[sym]
             pm == prov.previous_month_close[sym]
             py == prov.previous_year_close[sym]
         IN  IF pd.k = "raise" \/ pm.k = "raise" \/ py.k = "raise" THEN NoChanges
             ELSE LET od == PrevOther(ccy, pd, fxp.day)
                      om == PrevOther(ccy, pm, fxp.month)
                      oy == PrevOther(ccy, py, fxp.year)
                      d_usd == IF ccy = "USD" THEN pd ELSE od
                      m_usd == IF ccy = "USD" THEN pm ELSE om
                      y_usd == IF ccy = "USD" THEN py ELSE oy
                      d_jpy == IF ccy = "USD" THEN od ELSE pd
                      m_jpy == IF ccy = "USD" THEN om ELSE pm
                      y_jpy == IF ccy = "USD" THEN oy ELSE py
                  IN  [usd_mom |-> Pct(usd_price, m_usd), usd_dod |-> Pct(usd_price, d_usd),
                       jpy_mom |-> Pct(jpy_price, m_jpy), jpy_dod |-> Pct(jpy_price, d_jpy),
                       usd_yoy |-> Pct(usd_price, y_usd), jpy_yoy |-> Pct(jpy_price, y_jpy)]

\* lines 1000-1009: the company name, through name_cache
CompanyName(sym, prov, cache) ==
    IF ~UseYf(prov) THEN ""
    ELSE IF sym \in DOMAIN cache THEN cache[sym]
    ELSE IF prov.get_name[sym] = "raise" THEN "" ELSE prov.get_name[sym]

NameCacheAfter(sym, prov, cache) ==
    IF ~UseYf(prov) \/ sym \in DOMAIN cache THEN cache
    ELSE [s \in DOMAIN cache \cup {sym} |->
            IF s = sym THEN CompanyName(sym, prov, cache) ELSE cache[s]]

\* lines 936-949: the three calls for the FX pair, each in a try of its own
FxPrevCalls(prov) ==
    IF ~UseYf(prov) THEN <<>>
    ELSE << <<"previous_day_close", FxTicker>>, <<"previous_month_close", FxTicker>>,
            <<"previous_year_close", FxTicker>> >>

\* lines 976-991: the previous closes of the holding are asked for in one
\* try; a call that raises ends it
PreviousCloseCalls(sym, prov) ==
    << <<"previous_day_close", sym>> >>
        \o (IF prov.previous_day_close[sym].k = "raise" THEN <<>>
            ELSE << <<"previous_month_close", sym>> >>
                    \o (IF prov.previous_month_close[sym].k = "raise" THEN <<>>
                        ELSE << <<"previous_year_close", sym>> >>))

\* lines 1012-1020: provider.get_per(h.symbol), for every holding
PerCalls(sym) == << <<"get_per", sym>> >>

\* lines 974-1020: the calls one iteration of the loop makes
EnrichmentCalls(sym, prov, cache) ==
    IF ~UseYf(prov) THEN <<>>
    ELSE PreviousCloseCalls(sym, prov)
            \o (IF sym \in DOMAIN cache THEN <<>> ELSE << <<"get_name", sym>> >>)
            \o PerCalls(sym)

\* a PER read without the try of lines 1014-1019
PerOfUnguarded(sym, prov) == IF ~UseYf(prov) THEN NaN ELSE prov.get_per[sym]

\* lines 1012-1020: the PER
PerOf(sym, prov) ==
    IF ~UseYf(prov) THEN NaN
    ELSE LET pv == prov.get_per[sym]
         IN  IF pv.k \in {"raise", "none"} THEN NaN ELSE pv

\* the Row one iteration of the loop appends (lines 961-1040)
RowOf(h, pr, rate, prov, fxp, cache) ==
    LET price == PriceOf(pr, h.symbol)
        ccy == Ccy(h)
        usd_price == UsdPrice(ccy, price, rate)
        jpy_price == JpyPrice(ccy, price, rate)
        chg == Changes(h.symbol, ccy, usd_price, jpy_price, prov, fxp)
    IN  [symbol |-> h.symbol, shares |-> h.shares, currency |-> ccy,
         per |-> PerOf(h.symbol, prov),
         usd_price |-> usd_price, usd_value |-> Mul(h.shares, usd_price),
         jpy_price |-> jpy_price, jpy_value |-> Mul(h.shares, jpy_price),
         usd_mom |-> chg.usd_mom, usd_dod |-> chg.usd_dod,
         jpy_mom |-> chg.jpy_mom, jpy_dod |-> chg.jpy_dod,
         usd_yoy |-> chg.usd_yoy, jpy_yoy |-> chg.jpy_yoy,
         company_name |-> CompanyName(h.symbol, prov, cache)]

NoRet == [returned |-> FALSE, rows |-> <<>>, total_usd |-> None, total_jpy |-> None]
EmptyCache == [s \in {} |-> ""]
NoFxPrev == [day |-> None, month |-> None, year |-> None]

\* build_rows(holdings, prices, usd_jpy, provider) called directly
BRStart ==
    /\ entry = "build_rows"
    /\ pc = "br_start"
    /\ exc = ""
    /\ holdings \in SeqsUpTo(HoldingChoices, MaxHoldings)
    /\ prices \in PriceChoices
    /\ usd_jpy \in RateChoices
    /\ provider \in ProviderChoices
    /\ fx_prev = NoFxPrev
    /\ i = 1
    /\ rows = <<>>
    /\ total_usd = Num(0)
    /\ total_jpy = Num(0)
    /\ name_cache = EmptyCache
    /\ calls = <<>>
    /\ ret = NoRet

\* lines 928-959: the locals, and the FX pair's previous closes
BREnter ==
    /\ pc = "br_start"
    /\ rows' = <<>>
    /\ total_usd' = Num(0)
    /\ total_jpy' = Num(0)
    /\ fx_prev' = [day |-> FxPrevOf(provider, "previous_day_close"),
                   month |-> FxPrevOf(provider, "previous_month_close"),
                   year |-> FxPrevOf(provider, "previous_year_close")]
    /\ name_cache' = EmptyCache
    /\ calls' = calls \o FxPrevCalls(provider)
    /\ i' = 1
    /\ pc' = "br_loop"
    /\ UNCHANGED <<entry, exc, holdings, prices, usd_jpy, provider, ret>>
    /\ UNCHANGED <<rlVars, extVars, mdVars, mainVars>>

\* lines 960-1040, one iteration for a holding of a supported currency
BRIterate ==
    /\ pc = "br_loop"
    /\ i <= Len(holdings)
    /\ CurrencySupported(Ccy(holdings[i]))
    /\ LET row == RowOf(holdings[i], prices, usd_jpy, provider, fx_prev, name_cache)
       IN  /\ rows' = Append(rows, row)
           /\ total_usd' = Accumulate(total_usd, row.usd_value)
           /\ total_jpy' = Accumulate(total_jpy, row.jpy_value)
    /\ name_cache' = NameCacheAfter(holdings[i].symbol, provider, name_cache)
    /\ calls' = calls \o EnrichmentCalls(holdings[i].symbol, provider, name_cache)
    /\ i' = i + 1
    /\ UNCHANGED <<entry, pc, exc, holdings, prices, usd_jpy, provider, fx_prev, ret>>
    /\ UNCHANGED <<rlVars, extVars, mdVars, mainVars>>

\* lines 963-964: raise ValueError; the rows built so far are lost with the frame
BRRaise ==
    /\ pc = "br_loop"
    /\ i <= Len(holdings)
    /\ ~CurrencySupported(Ccy(holdings[i]))
    /\ IF entry = "main"
       THEN Handle("ValueError", "build_rows")
       ELSE /\ exc' = "ValueError"
            /\ pc' = "br_raised"
            /\ UNCHANGED <<failed_at, stderr, status>>
    /\ UNCHANGED <<entry, brVars, rlVars, extVars, mdVars, args, cfg, fi, usd_jpy_rate, main_rows, report,
                   html_report, stdout, html_file>>

\* line 1041: return rows, total_usd, total_jpy
BRReturn ==
    /\ pc = "br_loop"
    /\ i > Len(holdings)
    /\ ret' = [returned |-> TRUE, rows |-> rows, total_usd |-> total_usd,
               total_jpy |-> total_jpy]
    /\ pc' = IF entry = "main" THEN "sort" ELSE "br_returned"
    /\ UNCHANGED <<entry, exc, holdings, prices, usd_jpy, provider, fx_prev, i, rows,
                   total_usd, total_jpy, name_cache, calls>>
    /\ UNCHANGED <<rlVars, extVars, mdVars, mainVars>>

(***************************************************************************)
(* list.sort as main() uses it (lines 1193-1203).  CPython sorts a short   *)
(* list by finding the leading run and inserting the remaining elements    *)
(* by binary search; reverse=True reverses the list before and after.      *)
(* Every comparison is key(a) < key(b) on floats, false when either is     *)
(* nan.                                                                    *)
(***************************************************************************)
\* a < b on floats
Less(a, b) == IsNum(a) /\ IsNum(b) /\ a.n * b.d < b.n * a.d

Reverse(q) == [j \in 1..Len(q) |-> q[Len(q) + 1 - j]]

\* keyfunc / key_with_nan: float(v) of the chosen value column
SortKey(r, sort_by) == IF sort_by = "usd" THEN r.usd_value ELSE r.jpy_value

RECURSIVE RunEnd(_, _, _, _)
RunEnd(q, sort_by, desc, n) ==
    IF n < Len(q) /\ (Less(SortKey(q[n + 1], sort_by), SortKey(q[n], sort_by)) = desc)
    THEN RunEnd(q, sort_by, desc, n + 1)
    ELSE n

RECURSIVE InsertAt(_, _, _, _, _)
InsertAt(q, pivot, sort_by, l, r) ==
    IF l < r
    THEN LET m == l + ((r - l) \div 2)
         IN  IF Less(SortKey(pivot, sort_by), SortKey(q[m], sort_by))
             THEN InsertAt(q, pivot, sort_by, l, m)
             ELSE InsertAt(q, pivot, sort_by, m + 1, r)
    ELSE SubSeq(q, 1, l - 1) \o <<pivot>> \o SubSeq(q, l, Len(q))

RECURSIVE BinarySort(_, _, _)
BinarySort(done, rest, sort_by) ==
    IF rest = <<>> THEN done
    ELSE BinarySort(InsertAt(done, Head(rest), sort_by, 1, Len(done) + 1),
                    Tail(rest), sort_by)

SortAscending(q, sort_by) ==
    IF Len(q) <= 1 THEN q
    ELSE LET desc == Less(SortKey(q[2], sort_by), SortKey(q[1], sort_by))
             n == RunEnd(q, sort_by, desc, 2)
             run == IF desc THEN Reverse(SubSeq(q, 1, n)) ELSE SubSeq(q, 1, n)
         IN  BinarySort(run, SubSeq(q, n + 1, Len(q)), sort_by)

\* rows.sort(key=..., reverse=reverse), skipped for --sort-by none
SortRows(q, sort_by, sort_order) ==
    IF sort_by = "none" THEN q
    ELSE IF sort_order = "desc" THEN Reverse(SortAscending(Reverse(q), sort_by))
    ELSE SortAscending(q, sort_by)

(***************************************************************************)
(* The reporters (format_report, lines 500-537; format_report_html,        *)
(* lines 540-922).  A formatted number is the integer it shows, scaled by  *)
(* its number of decimals; text "" is the empty cell of a nan and text     *)
(* "nan" the word a nan total is printed as.                               *)
(***************************************************************************)
RECURSIVE Pow10(_)
Pow10(k) == IF k = 0 THEN 1 ELSE 10 * Pow10(k - 1)

\* round-half-even of n / d, d > 0
RoundHalfEven(n, d) ==
    LET q == n \div d
        r == n % d
    IN  IF 2 * r < d THEN q
        ELSE IF 2 * r > d THEN q + 1
        ELSE IF q % 2 = 0 THEN q ELSE q + 1

\* f"{x:,.<digits>f}"
Fixed(x, digits) ==
    IF IsNaN(x) THEN [text |-> "nan", scaled |-> 0]
    ELSE [text |-> "num", scaled |-> RoundHalfEven(x.n * Pow10(digits), x.d)]

\* "" if x != x else f"{x:,.<digits>f}"
Cell(x, digits) == IF IsNaN(x) THEN [text |-> "", scaled |-> 0] ELSE Fixed(x, digits)

\* total_usd += usd_value / total_jpy += jpy_value over the rows (lines 515-519)
RECURSIVE ReportTotal(_, _, _)
ReportTotal(rs, field, total) ==
    IF rs = <<>> THEN total
    ELSE ReportTotal(Tail(rs), field, Add(total, Head(rs)[field]))

\* format_report(rows, usd_jpy): the table lines, the TOTAL row, the FX line
FormatReport(rs, rate) ==
    LET tu == ReportTotal(rs, "usd_value", Num(0))
        tj == ReportTotal(rs, "jpy_value", Num(0))
    IN  [lines |-> [j \in 1..Len(rs) |->
                      [symbol |-> rs[j].symbol,
                       shares |-> Fixed(rs[j].shares, 0),
                       usd_price |-> Cell(rs[j].usd_price, 2),
                       usd_value |-> Cell(rs[j].usd_value, 2),
                       jpy_price |-> Cell(rs[j].jpy_price, 0),
                       jpy_value |-> Cell(rs[j].jpy_value, 0)]],
         total_usd |-> Fixed(tu, 2),
         total_jpy |-> Fixed(tj, 0),
         fx |-> IF rate.k = "none" THEN [text |-> "", scaled |-> 0] ELSE Fixed(rate, 4),
         totals |-> <<tu, tj>>]

\* Whether the name row_html is bound in format_report_html when line 788
\* and the two append calls read it: its only assignment (lines 771-787)
\* is indented into _pct_td, after that function's return statement.
RowHtmlBound == FALSE

\* format_report_html(rows, usd_jpy, monthly_dataset=None): the loop of
\* lines 741-795 accumulates the overall totals of the first row and then
\* reads row_html
FormatReportHtml(rs, rate) ==
    IF rs # <<>> /\ ~RowHtmlBound
    THEN [exc |-> "NameError", returned |-> FALSE, jpy_table |-> <<>>, usd_table |-> <<>>,
          jpy_table_total |-> <<Fixed(NaN, 2), Fixed(NaN, 0)>>,
          usd_table_total |-> <<Fixed(NaN, 2), Fixed(NaN, 0)>>,
          overall_usd |-> Fixed(NaN, 2), overall_jpy |-> Fixed(NaN, 0)]
    ELSE LET jpy_rows == SelectSeq(rs, LAMBDA r : r.currency = "JPY")
             usd_rows == SelectSeq(rs, LAMBDA r : r.currency # "JPY")
         IN  [exc |-> "", returned |-> TRUE,
              jpy_table |-> jpy_rows,
              usd_table |-> usd_rows,
              jpy_table_total |-> <<Fixed(ReportTotal(jpy_rows, "usd_value", Num(0)), 2),
                                    Fixed(ReportTotal(jpy_rows, "jpy_value", Num(0)), 0)>>,
              usd_table_total |-> <<Fixed(ReportTotal(usd_rows, "usd_value", Num(0)), 2),
                                    Fixed(ReportTotal(usd_rows, "jpy_value", Num(0)), 0)>>,
              overall_usd |-> Fixed(ReportTotal(rs, "usd_value", Num(0)), 2),
              overall_jpy |-> Fixed(ReportTotal(rs, "jpy_value", Num(0)), 0)]

(***************************************************************************)
(* load_config (lines 158-179) and load_portfolio_api (lines 138-155).     *)
(***************************************************************************)
\* str.lower() on the provider types that occur
Lower(t) == IF t = "Alpha_Vantage" THEN "alpha_vantage" ELSE t

\* the configuration documents: readable is FALSE for a file that cannot be
\* opened or parsed, "" is an absent field
ConfigChoices ==
    { [readable |-> TRUE, type |-> "", api_key |-> "", quote_currency |-> ""],
      [readable |-> TRUE, type |-> "Alpha_Vantage", api_key |-> "abc", quote_currency |-> "jpy"],
      [readable |-> TRUE, type |-> "alpha_vantage", api_key |-> "", quote_currency |-> ""],
      [readable |-> TRUE, type |-> "alpha_vantage", api_key |-> "your_key", quote_currency |-> "eur"],
      [readable |-> FALSE, type |-> "", api_key |-> "", quote_currency |-> ""] }

\* PN_ALPHA_VANTAGE_KEY: "<unset>" when the variable is not in the environment
EnvChoices == {"<unset>", "envkey"}

\* api_key.strip().upper().startswith("YOUR_")
IsPlaceholder(key) == key \in {"your_key", "YOUR_KEY"}

NoCfg == [price_provider_type |-> "", api_key |-> "", quote_currency |-> ""]

\* load_config: exc is the exception it raises, "" when it returns cfg
LoadConfig(raw, env) ==
    LET api_key == IF env = "<unset>" THEN raw.api_key ELSE env
        provider_type == Lower(IF raw.type = "" THEN "yfinance" ELSE raw.type)
    IN  IF ~raw.readable THEN [exc |-> "OSError", cfg |-> NoCfg]
        ELSE IF provider_type = "alpha_vantage" /\ (api_key = "" \/ IsPlaceholder(api_key))
        THEN [exc |-> "ValueError", cfg |-> NoCfg]
        ELSE [exc |-> "",
              cfg |-> [price_provider_type |-> provider_type, api_key |-> api_key,
                       quote_currency |->
                           Upper(IF raw.quote_currency = "" THEN "USD" ELSE raw.quote_currency)]]

\* the entries the ledger API answers with: shares None is an absent or
\* unparseable share count, currency "" an absent currency
ApiRowChoices ==
    { Holding("AAPL", Num(10), ""),
      Holding("AAPL", None, "usd"),
      Holding("7203.T", Num(5), "jpy"),
      Holding("", Num(1), "USD"),
      Holding("SAP.DE", Num(3), "EUR") }

\* load_portfolio_api(url, default_currency)
RECURSIVE LoadPortfolioApi(_, _)
LoadPortfolioApi(data, default_currency) ==
    IF data = <<>> THEN <<>>
    ELSE LET row == Head(data)
             rest == LoadPortfolioApi(Tail(data), default_currency)
         IN  IF row.symbol = "" THEN rest
             ELSE <<Holding(row.symbol,
                            IF row.shares.k = "none" THEN Num(0) ELSE row.shares,
                            Upper(IF row.currency = "" THEN default_currency
                                  ELSE row.currency))>> \o rest

(***************************************************************************)
(* main (lines 1164-1222).                                                 *)
(***************************************************************************)
NoArgs == [sort_by |-> "", sort_order |-> "", save_html |-> ""]
NoReport == [lines |-> <<>>, total_usd |-> Fixed(Num(0), 2), total_jpy |-> Fixed(Num(0), 0),
             fx |-> [text |-> "", scaled |-> 0], totals |-> <<Num(0), Num(0)>>]
NoHtml == [exc |-> "", returned |-> FALSE, jpy_table |-> <<>>, usd_table |-> <<>>,
           jpy_table_total |-> <<Fixed(Num(0), 2), Fixed(Num(0), 0)>>,
           usd_table_total |-> <<Fixed(Num(0), 2), Fixed(Num(0), 0)>>,
           overall_usd |-> Fixed(Num(0), 2), overall_jpy |-> Fixed(Num(0), 0)]
NoPrices == [s \in Symbols |-> None]

\* what get_price answers for a symbol when it does not raise
QuoteChoices(sym) == IF sym = "AAPL" THEN {Num(150), NaN} ELSE {Num(3000)}
\* what get_fx_rate("USD", "JPY") answers when it does not raise
FxQuoteChoices == {Num(150), Num(0)}

\* the positions inside the try block of main()
TryPcs == {"load_config", "load_portfolio", "provider", "fetch_prices", "call_build_rows",
           "br_start", "br_loop", "sort", "format_report", "emit"}

MainIdle ==
    /\ args = NoArgs
    /\ cfg = NoCfg
    /\ fi = 1
    /\ usd_jpy_rate = None
    /\ main_rows = <<>>
    /\ report = NoReport
    /\ html_report = NoHtml
    /\ stdout = <<>>
    /\ stderr = <<>>
    /\ html_file = <<>>
    /\ status = -1
    /\ failed_at = ""

BRIdle ==
    /\ holdings = <<>>
    /\ prices = NoPrices
    /\ usd_jpy = None
    /\ provider = PlainProvider("none")
    /\ fx_prev = NoFxPrev
    /\ i = 1
    /\ rows = <<>>
    /\ total_usd = Num(0)
    /\ total_jpy = Num(0)
    /\ name_cache = EmptyCache
    /\ calls = <<>>
    /\ ret = NoRet

\* main() is entered: parse_args and _load_dotenv are done
MainStart ==
    /\ entry = "main"
    /\ pc = "load_config"
    /\ exc = ""
    /\ MainIdle
    /\ BRIdle

\* line 1169: cfg = load_config(args.config)
MainLoadConfig ==
    /\ entry = "main"
    /\ pc = "load_config"
    /\ \E raw \in ConfigChoices, env \in EnvChoices :
        LET r == LoadConfig(raw, env)
        IN  IF r.exc # ""
            THEN /\ Handle(r.exc, "load_config")
                 /\ UNCHANGED cfg
            ELSE /\ cfg' = r.cfg
                 /\ pc' = "load_portfolio"
                 /\ UNCHANGED <<exc, failed_at, stderr, status>>
    /\ UNCHANGED <<entry, rlVars, extVars, mdVars, brVars, args, fi, usd_jpy_rate, main_rows, report,
                   html_report, stdout, html_file>>

\* lines 1170-1175: the holdings are loaded; an empty list returns 2
MainLoadPortfolio ==
    /\ entry = "main"
    /\ pc = "load_portfolio"
    /\ \E data \in SeqsUpTo(ApiRowChoices, MaxHoldings) :
        LET hs == LoadPortfolioApi(data, cfg.quote_currency)
        IN  /\ holdings' = hs
            /\ IF hs = <<>>
               THEN /\ stderr' = Append(stderr, "empty")
                    /\ status' = ExitEmpty
                    /\ pc' = "done"
               ELSE /\ pc' = "provider"
                    /\ UNCHANGED <<stderr, status>>
    /\ UNCHANGED <<entry, exc, rlVars, extVars, mdVars, prices, usd_jpy, provider, fx_prev, i, rows, total_usd,
                   total_jpy, name_cache, calls, ret, args, cfg, fi, usd_jpy_rate, main_rows,
                   report, html_report, stdout, html_file, failed_at>>

\* line 1170: the request to the ledger fails (requests missing, HTTP error)
MainLoadPortfolioFails ==
    /\ entry = "main"
    /\ pc = "load_portfolio"
    /\ Handle("RuntimeError", "load_portfolio")
    /\ UNCHANGED <<entry, rlVars, extVars, mdVars, brVars, args, cfg, fi, usd_jpy_rate, main_rows, report,
                   html_report, stdout, html_file>>

\* lines 1177-1180: the provider is constructed
MainProvider ==
    /\ entry = "main"
    /\ pc = "provider"
    /\ provider' \in IF cfg.price_provider_type = "yfinance" THEN YFinanceChoices
                      ELSE {PlainProvider("alpha_vantage")}
    /\ pc' = "fetch_prices"
    /\ fi' = 1
    /\ prices' = NoPrices
    /\ UNCHANGED <<entry, exc, rlVars, extVars, mdVars, holdings, usd_jpy, fx_prev, i, rows, total_usd,
                   total_jpy, name_cache, calls, ret, args, cfg, usd_jpy_rate, main_rows, report,
                   html_report, stdout, stderr, html_file, status, failed_at>>

\* lines 1177-1180: the constructor raises (the provider's package is missing)
MainProviderFails ==
    /\ entry = "main"
    /\ pc = "provider"
    /\ Handle("RuntimeError", "provider")
    /\ UNCHANGED <<entry, rlVars, extVars, mdVars, brVars, args, cfg, fi, usd_jpy_rate, main_rows, report,
                   html_report, stdout, html_file>>

\* a fetch_prices that asks for every lot
InPricesNever(pr, sym) == FALSE

\* h.symbol in prices (line 492)
InPrices(pr, sym) == pr[sym].k # "none"

\* fetch_prices (lines 489-495), one iteration: a symbol not fetched yet is
\* asked of the provider, a repeated symbol is skipped
MainFetchPrice ==
    /\ entry = "main"
    /\ pc = "fetch_prices"
    /\ fi <= Len(holdings)
    /\ LET sym == holdings[fi].symbol
       IN  IF InPrices(prices, sym)
           THEN UNCHANGED <<prices, calls>>
           ELSE /\ \E p \in QuoteChoices(sym) : prices' = [prices EXCEPT ![sym] = p]
                /\ calls' = Append(calls, <<"get_price", sym>>)
    /\ fi' = fi + 1
    /\ UNCHANGED <<entry, pc, exc, rlVars, extVars, mdVars, holdings, usd_jpy, provider, fx_prev, i, rows,
                   total_usd, total_jpy, name_cache, ret, args, cfg, usd_jpy_rate,
                   main_rows, report, html_report, stdout, stderr, html_file, status,
                   failed_at>>

\* fetch_prices: provider.get_price raises
MainFetchPriceFails ==
    /\ entry = "main"
    /\ pc = "fetch_prices"
    /\ fi <= Len(holdings)
    /\ ~InPrices(prices, holdings[fi].symbol)
    /\ calls' = Append(calls, <<"get_price", holdings[fi].symbol>>)
    /\ Handle("RuntimeError", "get_price")
    /\ UNCHANGED <<entry, rlVars, extVars, mdVars, holdings, prices, usd_jpy, provider, fx_prev, i,
                   rows, total_usd, total_jpy, name_cache, ret, args, cfg, fi, usd_jpy_rate, main_rows, report,
                   html_report, stdout, html_file>>

\* line 1189: usd_jpy_rate = provider.get_fx_rate("USD", "JPY"), need_fx being True
MainGetFx ==
    /\ entry = "main"
    /\ pc = "fetch_prices"
    /\ fi > Len(holdings)
    /\ usd_jpy_rate' \in FxQuoteChoices
    /\ pc' = "call_build_rows"
    /\ UNCHANGED <<entry, exc, rlVars, extVars, mdVars, brVars, args, cfg, fi, main_rows, report, html_report,
                   stdout, stderr, html_file, status, failed_at>>

\* line 1189: provider.get_fx_rate raises
MainGetFxFails ==
    /\ entry = "main"
    /\ pc = "fetch_prices"
    /\ fi > Len(holdings)
    /\ Handle("RuntimeError", "get_fx_rate")
    /\ UNCHANGED <<entry, rlVars, extVars, mdVars, brVars, args, cfg, fi, usd_jpy_rate, main_rows, report,
                   html_report, stdout, html_file>>

\* line 1191: build_rows(holdings, prices, usd_jpy_rate, provider=provider) is called
MainCallBuildRows ==
    /\ entry = "main"
    /\ pc = "call_build_rows"
    /\ usd_jpy' = usd_jpy_rate
    /\ pc' = "br_start"
    /\ UNCHANGED <<entry, exc, rlVars, extVars, mdVars, holdings, prices, provider, fx_prev, i, rows,
                   total_usd, total_jpy, name_cache, calls, ret, mainVars>>

\* lines 1191-1203: the returned rows are bound and sorted in place
MainSort ==
    /\ entry = "main"
    /\ pc = "sort"
    /\ \E sort_by \in {"usd", "jpy", "none"}, sort_order \in {"desc", "asc"} :
        /\ args' = [args EXCEPT !.sort_by = sort_by, !.sort_order = sort_order]
        /\ main_rows' = SortRows(ret.rows, sort_by, sort_order)
    /\ pc' = "format_report"
    /\ UNCHANGED <<entry, exc, rlVars, extVars, mdVars, brVars, cfg, fi, usd_jpy_rate, report, html_report,
                   stdout, stderr, html_file, status, failed_at>>

\* line 1205: report, _ = format_report(rows, usd_jpy=usd_jpy_rate)
MainFormatReport ==
    /\ entry = "main"
    /\ pc = "format_report"
    /\ report' = FormatReport(main_rows, usd_jpy_rate)
    /\ pc' = "emit"
    /\ UNCHANGED <<entry, exc, rlVars, extVars, mdVars, brVars, args, cfg, fi, usd_jpy_rate, main_rows,
                   html_report, stdout, stderr, html_file, status, failed_at>>

\* lines 1207-1216: the HTML report is built, saved when --save-html is
\* given (a failing write is reported and ignored), the text report is
\* printed and 0 returned
MainEmit ==
    /\ entry = "main"
    /\ pc = "emit"
    /\ LET h == FormatReportHtml(main_rows, usd_jpy_rate)
       IN  IF h.exc # ""
           THEN /\ Handle(h.exc, "format_report_html")
                /\ UNCHANGED <<args, html_report, stdout, html_file>>
           ELSE /\ html_report' = h
                /\ \E save \in {"", "written", "unwritable"} :
                     /\ args' = [args EXCEPT !.save_html = save]
                     /\ html_file' = IF save = "written" THEN <<h>> ELSE html_file
                     /\ stderr' = IF save = "unwritable" THEN Append(stderr, "save failed")
                                   ELSE stderr
                /\ stdout' = Append(stdout, report)
                /\ status' = ExitOk
                /\ pc' = "done"
                /\ UNCHANGED <<exc, failed_at>>
    /\ UNCHANGED <<entry, rlVars, extVars, mdVars, brVars, cfg, fi, usd_jpy_rate, main_rows, report>>

\* a KeyboardInterrupt arrives while the try block runs
MainInterrupt ==
    /\ entry = "main"
    /\ pc \in TryPcs
    /\ Handle("KeyboardInterrupt", "interrupt")
    /\ UNCHANGED <<entry, rlVars, extVars, mdVars, brVars, args, cfg, fi, usd_jpy_rate, main_rows, report,
                   html_report, stdout, html_file>>

(***************************************************************************)
(* YFinanceProvider.get_monthly_series (lines 452-486) and                 *)
(* build_monthly_dataset (lines 1044-1097).  A history is what             *)
(* Ticker.history(period, interval="1mo") answers: entries in time order,  *)
(* each with the "%Y-%m" label of its index and its Close, nan for a       *)
(* missing close.                                                          *)
(***************************************************************************)
Bar(label, close) == [label |-> label, close |-> close]

FxHistories ==
    { <<>>,
      <<Bar("2024-01", Num(2)), Bar("2024-02", Num(4))>>,
      <<Bar("2024-01", Num(2)), Bar("2024-02", Num(0)), Bar("2024-03", Num(4))>>,
      <<Bar("2024-02", Num(4)), Bar("2024-03", Num(5)), Bar("2024-03", Num(8))>>,
      <<Bar("2024-01", NaN), Bar("2024-02", Num(4)), Bar("2024-03", Num(5))>> }

InstrumentHistories ==
    { <<>>,
      <<Bar("2024-02", Num(12))>>,
      <<Bar("2024-01", Num(6)), Bar("2024-02", Num(12))>>,
      <<Bar("2024-03", Num(20)), Bar("2024-04", Num(24))>>,
      <<Bar("2024-01", Num(6)), Bar("2024-02", NaN), Bar("2024-03", Num(20))>>,
      <<Bar("2024-02", Num(12)), Bar("2024-03", Num(20)), Bar("2024-03", Num(40))>>,
      <<Bar("2024-01", Num(6)), Bar("2024-02", Num(12)), Bar("2024-03", Num(20))>> }

\* the months argument: 12 is the default of line 1045
MonthsChoices == {1, 2, 12}

MonthlyHoldingChoices ==
    { Holding("AAPL", Num(10), "USD"),
      Holding("AAPL", Rat(1, 2), "usd"),
      Holding("7203.T", Rat(5, 2), "jpy"),
      Holding("SAP.DE", Num(3), "EUR") }

\* get_monthly_series: dropna, one (label, close) pair per remaining entry,
\* cut to the last `months` pairs
GetMonthlySeries(hist, m) ==
    LET close == SelectSeq(hist, LAMBDA e : ~IsNaN(e.close))
        result == [j \in 1..Len(close) |-> <<close[j].label, close[j].close>>]
    IN  IF m # 0 /\ Len(result) > m
        THEN SubSeq(result, Len(result) - m + 1, Len(result))
        ELSE result

\* key in {k: v for (k, v) in pairs}
HasKey(pairs, key) == \E j \in 1..Len(pairs) : pairs[j][1] = key

\* {k: v for (k, v) in pairs}.get(key): the last pair of a label wins
DictGet(pairs, key) ==
    IF ~HasKey(pairs, key) THEN None
    ELSE LET last == CHOOSE j \in 1..Len(pairs) :
                        /\ pairs[j][1] = key
                        /\ \A l \in (j + 1)..Len(pairs) : pairs[l][1] # key
         IN  pairs[last][2]

\* an alignment by position instead of by label
AlignByPosition(series, labels) ==
    [j \in 1..Len(labels) |-> IF j > Len(series) THEN NaN ELSE series[j][2]]

\* an alignment that leaves out the months the series does not have
AlignOmitsMissing(series, labels) ==
    LET have == SelectSeq(labels, LAMBDA lbl : HasKey(series, lbl))
    IN  [j \in 1..Len(have) |-> DictGet(series, have[j])]

\* align(series) of lines 1056-1061
Align(series, labels) ==
    [j \in 1..Len(labels) |->
        IF ~HasKey(series, labels[j]) THEN NaN ELSE DictGet(series, labels[j])]

\* usd_p of lines 1072-1077
MonthlyUsdPrice(ccy, px, fx) ==
    IF ccy = "USD" THEN px
    ELSE IF fx.k # "none" /\ ~IsZero(fx) /\ ~IsNaN(px) THEN Div(px, fx) ELSE NaN

\* a conversion that takes every currency but JPY for USD
MonthlyJpyPriceUnlessJpy(ccy, px, fx) ==
    IF ccy # "JPY"
    THEN (IF fx.k # "none" /\ ~IsNaN(px) THEN Mul(px, fx) ELSE NaN)
    ELSE px

\* jpy_p of lines 1072-1077
MonthlyJpyPrice(ccy, px, fx) ==
    IF ccy = "USD"
    THEN (IF fx.k # "none" /\ ~IsNaN(px) THEN Mul(px, fx) ELSE NaN)
    ELSE px

\* a value computed from the rounded share count
MonthlyValueOfRounded(p, shares) ==
    IF ~IsNaN(p) THEN Mul(p, Num(RoundHalfEven(shares.n, shares.d))) ELSE NaN

\* (p * h.shares) if not (p != p) else float("nan")
MonthlyValue(p, shares) == IF ~IsNaN(p) THEN Mul(p, shares) ELSE NaN

\* the dict one iteration of lines 1064-1090 appends
MonthlyRow(h, ser, pairs) ==
    LET labels == [j \in 1..Len(pairs) |-> pairs[j][1]]
        prices_aligned == Align(ser, labels)
        ccy == Ccy(h)
        usd_prices == [j \in 1..Len(prices_aligned) |->
                         MonthlyUsdPrice(ccy, prices_aligned[j], DictGet(pairs, labels[j]))]
        jpy_prices == [j \in 1..Len(prices_aligned) |->
                         MonthlyJpyPrice(ccy, prices_aligned[j], DictGet(pairs, labels[j]))]
    IN  [symbol |-> h.symbol,
         shares |-> RoundHalfEven(h.shares.n, h.shares.d),
         currency |-> ccy,
         usd_price |-> usd_prices,
         usd_value |-> [j \in 1..Len(usd_prices) |-> MonthlyValue(usd_prices[j], h.shares)],
         jpy_price |-> jpy_prices,
         jpy_value |-> [j \in 1..Len(jpy_prices) |-> MonthlyValue(jpy_prices[j], h.shares)]]

NoDataset == [returned |-> FALSE, none |-> FALSE, months |-> <<>>, rows |-> <<>>, fx |-> <<>>]

MDIdle ==
    /\ months = 0
    /\ fx_pairs = <<>>
    /\ sers = <<>>
    /\ mi = 1
    /\ md_rows = <<>>
    /\ dataset = NoDataset

\* build_monthly_dataset(provider, holdings, months) is called
MDStart ==
    /\ entry = "monthly"
    /\ pc = "md_start"
    /\ exc = ""
    /\ months \in MonthsChoices
    /\ holdings \in SeqsUpTo(MonthlyHoldingChoices, MaxHoldings)
    /\ provider \in {PlainProvider("yfinance"), PlainProvider("alpha_vantage")}
    /\ fx_pairs = <<>>
    /\ sers = <<>>
    /\ mi = 1
    /\ md_rows = <<>>
    /\ dataset = NoDataset
    /\ prices = NoPrices
    /\ usd_jpy = None
    /\ fx_prev = NoFxPrev
    /\ i = 1
    /\ rows = <<>>
    /\ total_usd = Num(0)
    /\ total_jpy = Num(0)
    /\ name_cache = EmptyCache
    /\ calls = <<>>
    /\ ret = NoRet

\* lines 1048-1049: return None for a provider that is no YFinanceProvider
MDUnsupported ==
    /\ pc = "md_start"
    /\ ~UseYf(provider)
    /\ dataset' = [NoDataset EXCEPT !.returned = TRUE, !.none = TRUE]
    /\ pc' = "md_returned"
    /\ UNCHANGED <<entry, exc, months, fx_pairs, sers, mi, md_rows, rlVars, extVars, brVars, mainVars>>

\* lines 1051-1053: the FX pair's series gives the month axis
MDFetchFx ==
    /\ pc = "md_start"
    /\ UseYf(provider)
    /\ \E hist \in FxHistories : fx_pairs' = GetMonthlySeries(hist, months)
    /\ md_rows' = <<>>
    /\ mi' = 1
    /\ pc' = "md_loop"
    /\ UNCHANGED <<entry, exc, months, sers, dataset, rlVars, extVars, brVars, mainVars>>

\* lines 1064-1090, one iteration: the holding's series is fetched, aligned
\* and converted
MDIterate ==
    /\ pc = "md_loop"
    /\ mi <= Len(holdings)
    /\ \E hist \in InstrumentHistories :
        LET ser == GetMonthlySeries(hist, months)
        IN  /\ sers' = Append(sers, ser)
            /\ md_rows' = Append(md_rows, MonthlyRow(holdings[mi], ser, fx_pairs))
    /\ mi' = mi + 1
    /\ UNCHANGED <<entry, pc, exc, months, fx_pairs, dataset, rlVars, extVars, brVars, mainVars>>

\* Ticker.history raises inside get_monthly_series (line 466 is outside the
\* try): the exception leaves build_monthly_dataset
MDRaise ==
    /\ \/ pc = "md_start" /\ UseYf(provider)
       \/ pc = "md_loop" /\ mi <= Len(holdings)
    /\ exc' = "RuntimeError"
    /\ pc' = "md_raised"
    /\ UNCHANGED <<entry, mdVars, rlVars, extVars, brVars, mainVars>>

\* lines 1092-1097: the dataset is returned
MDReturn ==
    /\ pc = "md_loop"
    /\ mi > Len(holdings)
    /\ dataset' = [returned |-> TRUE, none |-> FALSE,
                   months |-> [j \in 1..Len(fx_pairs) |-> fx_pairs[j][1]],
                   rows |-> md_rows,
                   fx |-> [j \in 1..Len(fx_pairs) |-> DictGet(fx_pairs, fx_pairs[j][1])]]
    /\ pc' = "md_returned"
    /\ UNCHANGED <<entry, exc, months, fx_pairs, sers, mi, md_rows, rlVars, extVars, brVars, mainVars>>

(***************************************************************************)
(* dataset_to_csv (lines 1100-1133).  The text is its lines; a line is the *)
(* tuple of the fields its f-string joins with commas.  A numeric field is *)
(* [text |-> "", ...] for the empty string and [text |-> "num", scaled]    *)
(* for f"{v:.6f}", scaled being the number shown times 10^6.               *)
(***************************************************************************)
CsvHeader ==
    <<"month", "symbol", "shares", "currency", "usd_price", "usd_value",
      "jpy_price", "jpy_value", "fx_rate">>

CsvEmpty == [text |-> "", scaled |-> 0]

\* _get that prints a nan or a None as a number
CsvGetPrintsNaN(lst, idx) ==
    IF idx > Len(lst) THEN CsvEmpty ELSE Fixed(lst[idx], 6)

\* _get(lst, idx) of lines 1119-1124: "" for an index out of range, for a
\* nan and for a value float() rejects
CsvGet(lst, idx) ==
    IF idx > Len(lst) THEN CsvEmpty
    ELSE IF IsNaN(lst[idx]) THEN CsvEmpty
    ELSE IF ~IsNum(lst[idx]) THEN CsvEmpty
    ELSE Fixed(lst[idx], 6)

\* fx of line 1110 and fxv of line 1129
CsvFx(fx_list, idx) ==
    LET fx == IF idx <= Len(fx_list) THEN fx_list[idx] ELSE None
    IN  IF fx.k = "none" \/ IsNaN(fx) THEN CsvEmpty ELSE Fixed(fx, 6)

\* the n-th data line belongs to the holding-major pair <<month, holding>>
CsvPairHoldingMajor(n, nmonths, nrows) ==
    <<((n - 1) % nmonths) + 1, ((n - 1) \div nmonths) + 1>>

\* the n-th data line belongs to <<month index, holding index>>: the outer
\* loop of line 1109 runs over the months, the inner of line 1111 over rows
CsvPair(n, nmonths, nrows) ==
    <<((n - 1) \div nrows) + 1, ((n - 1) % nrows) + 1>>

\* the line of lines 1130-1132
CsvLine(ds, mth, k) ==
    LET r == ds.rows[k]
    IN  <<ds.months[mth], r.symbol, r.shares, r.currency,
          CsvGet(r.usd_price, mth), CsvGet(r.usd_value, mth),
          CsvGet(r.jpy_price, mth), CsvGet(r.jpy_value, mth),
          CsvFx(ds.fx, mth)>>

NoCsv == [returned |-> FALSE, header |-> <<>>, lines |-> <<>>]

\* dataset_to_csv(dataset)
DatasetToCsv(ds) ==
    LET nmonths == Len(ds.months)
        nrows == Len(ds.rows)
    IN  [returned |-> TRUE,
         header |-> CsvHeader,
         lines |-> [n \in 1..(nmonths * nrows) |->
                       LET pair == CsvPair(n, nmonths, nrows)
                       IN  CsvLine(ds, pair[1], pair[2])]]

\* the month axes, rows and fx lists dataset_to_csv is called on: lists of
\* unequal length, nan and None entries included
CsvMonthsChoices == {<<>>, <<"2024-01">>, <<"2024-01", "2024-02">>}

CsvRowChoices ==
    { [symbol |-> "AAPL", shares |-> 10, currency |-> "USD",
       usd_price |-> <<Rat(1, 3), Num(150)>>, usd_value |-> <<Rat(10, 3), Num(1500)>>,
       jpy_price |-> <<Num(50), NaN>>, jpy_value |-> <<Num(500), NaN>>],
      [symbol |-> "7203.T", shares |-> 3, currency |-> "JPY",
       usd_price |-> <<NaN, Rat(2, 3)>>, usd_value |-> <<NaN>>,
       jpy_price |-> <<None, Num(2000)>>, jpy_value |-> <<>>],
      [symbol |-> "SAP.DE", shares |-> 0, currency |-> "EUR",
       usd_price |-> <<Rat(-1, 3)>>, usd_value |-> <<Num(0), Num(0)>>,
       jpy_price |-> <<Rat(5, 7), Rat(7, 8)>>, jpy_value |-> <<Num(0), None>>] }

CsvFxChoices == {<<>>, <<Num(150)>>, <<None, Rat(301, 2)>>, <<NaN, Num(0)>>}

CsvIdle == csv = NoCsv

\* dataset_to_csv is about to be called on a dataset
CsvStart ==
    /\ entry = "csv"
    /\ pc = "csv_start"
    /\ exc = ""
    /\ csv = NoCsv
    /\ months = 0
    /\ fx_pairs = <<>>
    /\ sers = <<>>
    /\ mi = 1
    /\ md_rows = <<>>
    /\ \E m \in CsvMonthsChoices, f \in CsvFxChoices :
       \E rs \in SeqsUpTo(CsvRowChoices, MaxHoldings) :
          dataset = [returned |-> TRUE, none |-> FALSE, months |-> m, rows |-> rs, fx |-> f]

\* the call and its return
CsvCall ==
    /\ pc = "csv_start"
    /\ csv' = DatasetToCsv(dataset)
    /\ pc' = "csv_returned"
    /\ UNCHANGED <<entry, exc, rlVars, brVars, mainVars, mdVars, domVars, avVars, yfVars, moreVars>>

(***************************************************************************)
(* The script of the HTML report (lines 587-689) at work on one table:     *)
(* getCellValue, sortTableEl, the click handler of attachSortHandlers and  *)
(* the DOMContentLoaded handler.  A body row carries the data-value of its *)
(* cells as row_html writes them (lines 773-785): the symbol, and for a    *)
(* number "" when it is nan, else f"{v:.6f}".                              *)
(***************************************************************************)
\* the columns followed here: SYMBOL, USD_VALUE and JPY_VALUE
ColSymbol == 0
ColUsdValue == 7
ColJpyValue == 12
DomCols == {ColSymbol, ColUsdValue, ColJpyValue}

DomRow(symbol, usd_value, jpy_value) ==
    [symbol |-> symbol, usd_value |-> Cell(usd_value, 6), jpy_value |-> Cell(jpy_value, 6)]

DomRowChoices ==
    { DomRow("AAPL", Num(100), NaN),
      DomRow("7203.T", NaN, Num(300)),
      DomRow("aapl", Rat(1, 2), Num(100)),
      DomRow("SAP.DE", Num(2), Num(300)) }

\* the data-value attribute of the cell of a row at a column
DataValue(row, col) ==
    IF col = ColSymbol THEN row.symbol
    ELSE IF col = ColUsdValue THEN row.usd_value
    ELSE row.jpy_value

\* String.prototype.toUpperCase on the symbols that occur
ToUpperCase(t) == IF t = "aapl" THEN "AAPL" ELSE t

\* the code units of the upper-cased symbols
CodeUnits(t) ==
    IF t = "AAPL" THEN <<65, 65, 80, 76>>
    ELSE IF t = "7203.T" THEN <<55, 50, 48, 51, 46, 84>>
    ELSE IF t = "SAP.DE" THEN <<83, 65, 80, 46, 68, 69>>
    ELSE <<>>

\* a.localeCompare(b) on such strings: negative, zero or positive
RECURSIVE CompareUnits(_, _)
CompareUnits(a, b) ==
    IF a = <<>> /\ b = <<>> THEN 0
    ELSE IF a = <<>> THEN -1
    ELSE IF b = <<>> THEN 1
    ELSE IF Head(a) # Head(b) THEN Head(a) - Head(b)
    ELSE CompareUnits(Tail(a), Tail(b))

LocaleCompare(a, b) == CompareUnits(CodeUnits(a), CodeUnits(b))

\* getCellValue(cell, type): parseFloat of the data-value for 'num' (nan
\* for the empty string), the trimmed upper-cased data-value otherwise
GetCellValue(row, col, type) ==
    IF type = "num"
    THEN (IF DataValue(row, col).text = "" THEN NaN
          ELSE Rat(DataValue(row, col).scaled, Pow10(6)))
    ELSE ToUpperCase(DataValue(row, col))

\* data-sort as attachSortHandlers sets it (line 651), which is also the
\* default of line 609
SortType(col) == IF col = 0 THEN "str" ELSE "num"

\* a comparator that treats a nan like any number, by the sign of av - bv
CompareNoNaNRule(a, b, col, asc) ==
    IF SortType(col) = "num"
    THEN LET av == GetCellValue(a, col, "num")
             bv == GetCellValue(b, col, "num")
             d == IF IsNaN(av) \/ IsNaN(bv) THEN 0 ELSE Sub(av, bv).n
         IN  IF asc THEN d ELSE -d
    ELSE LET av == GetCellValue(a, col, "str")
             bv == GetCellValue(b, col, "str")
         IN  IF asc THEN LocaleCompare(av, bv) ELSE LocaleCompare(bv, av)

\* the comparator of lines 610-623
Compare(a, b, col, asc) ==
    IF SortType(col) = "num"
    THEN LET av == GetCellValue(a, col, "num")
             bv == GetCellValue(b, col, "num")
             aNaN == ~IsNum(av)
             bNaN == ~IsNum(bv)
         IN  IF aNaN /\ bNaN THEN 0
             ELSE IF aNaN THEN 1
             ELSE IF bNaN THEN -1
             ELSE IF asc THEN Sub(av, bv).n ELSE Sub(bv, av).n
    ELSE LET av == GetCellValue(a, col, "str")
             bv == GetCellValue(b, col, "str")
         IN  IF asc THEN LocaleCompare(av, bv) ELSE LocaleCompare(bv, av)

\* Array.prototype.sort, which is stable: an element goes behind the last
\* element it does not compare less than
RECURSIVE StableInsert(_, _, _, _)
StableInsert(done, x, col, asc) ==
    IF done = <<>> THEN <<x>>
    ELSE IF Compare(done[Len(done)], x, col, asc) <= 0 THEN Append(done, x)
    ELSE Append(StableInsert(SubSeq(done, 1, Len(done) - 1), x, col, asc), done[Len(done)])

RECURSIVE ArraySort(_, _, _, _)
ArraySort(done, rest, col, asc) ==
    IF rest = <<>> THEN done
    ELSE ArraySort(StableInsert(done, Head(rest), col, asc), Tail(rest), col, asc)

\* sortTableEl(table, colIndex, asc): the body rows re-appended in sorted
\* order
SortTableEl(rs, col, asc) == ArraySort(<<>>, rs, col, asc)

NoHeaderCell == [col |-> -1, asc |-> FALSE]

DomIdle ==
    /\ tbody = <<>>
    /\ data_asc = NoHeaderCell
    /\ indicator = NoHeaderCell

\* the document is parsed: no header cell has data-asc, no indicator shows
DomStart ==
    /\ entry = "script"
    /\ pc = "dom_start"
    /\ exc = ""
    /\ tbody \in SeqsUpTo(DomRowChoices, MaxHoldings + 1)
    /\ data_asc = NoHeaderCell
    /\ indicator = NoHeaderCell

\* the DOMContentLoaded handler (lines 667-686): a table with body rows is
\* sorted by column 12 descending
DomContentLoaded ==
    /\ pc = "dom_start"
    /\ IF tbody # <<>>
       THEN /\ data_asc' = [col |-> ColJpyValue, asc |-> FALSE]
            /\ tbody' = SortTableEl(tbody, ColJpyValue, FALSE)
            /\ indicator' = [col |-> ColJpyValue, asc |-> FALSE]
       ELSE UNCHANGED <<tbody, data_asc, indicator>>
    /\ pc' = "dom_loaded"
    /\ UNCHANGED <<entry, exc, rlVars, brVars, mainVars, mdVars, csvVars, avVars, yfVars, moreVars>>

\* the click handler (lines 653-662) for a click on the header cell of a
\* column
DomClick ==
    /\ pc \in {"dom_loaded", "dom_clicked"}
    /\ \E col \in DomCols :
        LET asc == ~(data_asc.col = col /\ data_asc.asc)
        IN  /\ data_asc' = [col |-> col, asc |-> asc]
            /\ IF tbody # <<>>
               THEN /\ tbody' = SortTableEl(tbody, col, asc)
                    /\ indicator' = [col |-> col, asc |-> asc]
               ELSE /\ tbody' = tbody
                    /\ indicator' = NoHeaderCell
    /\ pc' = "dom_clicked"
    /\ UNCHANGED <<entry, exc, rlVars, brVars, mainVars, mdVars, csvVars, avVars, yfVars, moreVars>>

(***************************************************************************)
(* AlphaVantageProvider (lines 189-298).  A response is the JSON document  *)
(* of one request, or an HTTP failure: its advisory fields ("" when        *)
(* absent), the quote's price field, the daily series as (date, close)     *)
(* entries in document order, and the exchange-rate field.  A text field   *)
(* is None when absent or empty, Unparseable when float() rejects it, and  *)
(* the number it spells otherwise.  Dates are numbered in calendar order,  *)
(* which is the order of their ISO strings.                                *)
(***************************************************************************)
Unparseable == [k |-> "bad", n |-> 0, d |-> 1]

Response(http_ok, note, error_message, information, price, series, has_rate_key, rate) ==
    [received |-> TRUE, http_ok |-> http_ok, note |-> note,
     error_message |-> error_message, information |-> information,
     price |-> price, series |-> series, has_rate_key |-> has_rate_key, rate |-> rate]

NoResponse ==
    [received |-> FALSE, http_ok |-> TRUE, note |-> "", error_message |-> "",
     information |-> "", price |-> None, series |-> <<>>, has_rate_key |-> FALSE,
     rate |-> None]

DailyBar(date, close) == [date |-> date, close |-> close]

\* the responses to function=GLOBAL_QUOTE
QuoteResponses ==
    { Response(TRUE, "", "", "", Num(150), <<>>, FALSE, None),
      Response(TRUE, "", "", "", None, <<>>, FALSE, None),
      Response(TRUE, "", "", "", Unparseable, <<>>, FALSE, None),
      Response(TRUE, "limit", "", "", None, <<>>, FALSE, None),
      Response(TRUE, "", "", "premium", Num(150), <<>>, FALSE, None),
      Response(FALSE, "", "", "", None, <<>>, FALSE, None) }

\* the responses to function=TIME_SERIES_DAILY
DailyResponses ==
    { Response(TRUE, "", "", "", None, <<DailyBar(1, Num(10)), DailyBar(3, Num(30)), DailyBar(2, Num(20))>>, FALSE, None),
      Response(TRUE, "", "", "", None, <<>>, FALSE, None),
      Response(TRUE, "", "", "", None, <<DailyBar(2, None), DailyBar(1, Num(10))>>, FALSE, None),
      Response(TRUE, "", "", "", None, <<DailyBar(2, Unparseable)>>, FALSE, None),
      Response(TRUE, "", "invalid", "", None, <<DailyBar(1, Num(10))>>, FALSE, None),
      Response(FALSE, "", "", "", None, <<>>, FALSE, None) }

\* the responses to function=CURRENCY_EXCHANGE_RATE
FxResponses ==
    { Response(TRUE, "", "", "", None, <<>>, TRUE, Num(150)),
      Response(TRUE, "", "", "", None, <<>>, FALSE, None),
      Response(TRUE, "", "", "", None, <<>>, TRUE, None),
      Response(TRUE, "", "", "", None, <<>>, TRUE, Unparseable),
      Response(TRUE, "", "", "premium", None, <<>>, TRUE, Num(150)),
      Response(FALSE, "", "", "", None, <<>>, FALSE, None) }

\* an advisory check that knows the Note field only
AdvisoryNoteOnly(data) == IF data.note # "" THEN "Note" ELSE ""

\* the checks of lines 210-216, 243-249 and 281-287: the first advisory
\* field that is not empty, "" for none
Advisory(data) ==
    IF data.note # "" THEN "Note"
    ELSE IF data.error_message # "" THEN "Error Message"
    ELSE IF data.information # "" THEN "Information"
    ELSE ""

\* lines 217-223: the quote's price, None when the field is absent or
\* float() raises ValueError
QuotePrice(data) == IF IsNum(data.price) THEN data.price ELSE None

\* the close of the entry that comes first in the document
FirstDailyClose(data) ==
    IF data.series = <<>> THEN None
    ELSE IF IsNum(data.series[1].close) THEN data.series[1].close ELSE None

\* lines 250-266: the close of the entry with the maximum date key
LatestDailyClose(data) ==
    IF data.series = <<>> THEN None
    ELSE LET latest == CHOOSE j \in 1..Len(data.series) :
                          \A l \in 1..Len(data.series) : data.series[l].date <= data.series[j].date
         IN  IF IsNum(data.series[latest].close) THEN data.series[latest].close ELSE None

\* lines 288-298: the exchange rate, Raise when a RuntimeError is raised
ExchangeRate(data) ==
    IF ~data.has_rate_key THEN Raise
    ELSE IF IsNum(data.rate) THEN data.rate
    ELSE Raise

\* a provider whose daily-series request does not pass the limiter
OnlyFirstRequestAcquires(function) == function # "TIME_SERIES_DAILY"

\* whether the method issuing a request of that function calls
\* self.rate_limiter.acquire() first (lines 199, 232, 270)
AcquiresFirst(function) == function \in {"GLOBAL_QUOTE", "TIME_SERIES_DAILY", "CURRENCY_EXCHANGE_RATE"}

NoResult == [k |-> "none", value |-> None, exc |-> ""]
Returned(v) == [k |-> "returned", value |-> v, exc |-> ""]
Raised(e) == [k |-> "raised", value |-> None, exc |-> e]

AVIdle ==
    /\ av_call = ""
    /\ av_trace = <<>>
    /\ av_quote = NoResponse
    /\ av_daily = NoResponse
    /\ av_fx = NoResponse
    /\ av_result = NoResult
    /\ req_times = <<>>

\* AlphaVantageProvider(api_key, rate_limiter) is constructed
AVStart ==
    /\ entry = "alpha_vantage"
    /\ pc = "av_idle"
    /\ exc = ""
    /\ RLStart
    /\ AVIdle

\* the position a request of that function is issued from
RequestPc(function) ==
    IF function = "GLOBAL_QUOTE" THEN "quote_request"
    ELSE IF function = "TIME_SERIES_DAILY" THEN "daily_request"
    ELSE "fx_request"

\* the position a method starts at: its acquire() call, then its request
EnterPc(function) ==
    IF AcquiresFirst(function) THEN "av_acquire" ELSE RequestPc(function)

\* the request function a call at the acquire() position is about to issue
PendingFunction ==
    IF av_call = "get_fx_rate" THEN "CURRENCY_EXCHANGE_RATE"
    ELSE IF av_quote.received THEN "TIME_SERIES_DAILY"
    ELSE "GLOBAL_QUOTE"

\* get_price(symbol) or get_fx_rate("USD", "JPY") is called
AVCall ==
    /\ pc = "av_idle"
    /\ Len(recorded) < MaxCalls
    /\ \E method \in {"get_price", "get_fx_rate"} :
        /\ av_call' = method
        /\ pc' = EnterPc(IF method = "get_price" THEN "GLOBAL_QUOTE"
                         ELSE "CURRENCY_EXCHANGE_RATE")
    /\ av_trace' = <<>>
    /\ av_quote' = NoResponse
    /\ av_daily' = NoResponse
    /\ av_fx' = NoResponse
    /\ av_result' = NoResult
    /\ UNCHANGED <<entry, exc, req_times, rlVars, brVars, mainVars, mdVars, csvVars, domVars, yfVars, moreVars>>

\* self.rate_limiter.acquire() of lines 199, 232 and 270
AVAcquire ==
    /\ pc = "av_acquire"
    /\ acquire
    /\ av_trace' = Append(av_trace, "acquire")
    /\ pc' = RequestPc(PendingFunction)
    /\ UNCHANGED <<entry, exc, av_call, av_quote, av_daily, av_fx, av_result, req_times,
                   brVars, mainVars, mdVars, csvVars, domVars, yfVars, moreVars>>

\* the call is over: it returned or raised
AVLeave(result) ==
    /\ av_result' = result
    /\ pc' = "av_idle"

\* lines 206-229 up to the fallback: the GLOBAL_QUOTE request and what
\* get_price makes of the response
AVGlobalQuote ==
    /\ pc = "quote_request"
    /\ av_trace' = Append(av_trace, "GLOBAL_QUOTE")
    /\ req_times' = Append(req_times, clock)
    /\ \E data \in QuoteResponses :
        /\ av_quote' = data
        /\ IF ~data.http_ok THEN AVLeave(Raised("HTTPError"))
           ELSE IF Advisory(data) # "" THEN AVLeave(Raised("RuntimeError"))
           ELSE IF QuotePrice(data).k # "none" THEN AVLeave(Returned(QuotePrice(data)))
           ELSE /\ pc' = EnterPc("TIME_SERIES_DAILY")
                /\ av_result' = av_result
    /\ UNCHANGED <<entry, exc, av_call, av_daily, av_fx, rlVars, brVars, mainVars, mdVars,
                   csvVars, domVars, yfVars, moreVars>>

\* _get_latest_daily_close (lines 240-266) and lines 226-229 of get_price
AVTimeSeriesDaily ==
    /\ pc = "daily_request"
    /\ av_trace' = Append(av_trace, "TIME_SERIES_DAILY")
    /\ req_times' = Append(req_times, clock)
    /\ \E data \in DailyResponses :
        /\ av_daily' = data
        /\ IF ~data.http_ok THEN AVLeave(Raised("HTTPError"))
           ELSE IF Advisory(data) # "" THEN AVLeave(Raised("RuntimeError"))
           ELSE IF LatestDailyClose(data).k = "none" THEN AVLeave(Raised("RuntimeError"))
           ELSE AVLeave(Returned(LatestDailyClose(data)))
    /\ UNCHANGED <<entry, exc, av_call, av_quote, av_fx, rlVars, brVars, mainVars, mdVars,
                   csvVars, domVars, yfVars, moreVars>>

\* get_fx_rate, lines 278-298
AVCurrencyExchangeRate ==
    /\ pc = "fx_request"
    /\ av_trace' = Append(av_trace, "CURRENCY_EXCHANGE_RATE")
    /\ req_times' = Append(req_times, clock)
    /\ \E data \in FxResponses :
        /\ av_fx' = data
        /\ IF ~data.http_ok THEN AVLeave(Raised("HTTPError"))
           ELSE IF Advisory(data) # "" THEN AVLeave(Raised("RuntimeError"))
           ELSE IF ExchangeRate(data).k = "raise" THEN AVLeave(Raised("RuntimeError"))
           ELSE AVLeave(Returned(ExchangeRate(data)))
    /\ UNCHANGED <<entry, exc, av_call, av_quote, av_daily, rlVars, brVars, mainVars, mdVars,
                   csvVars, domVars, yfVars, moreVars>>

(***************************************************************************)
(* YFinanceProvider._last_price, get_price and get_fx_rate (lines          *)
(* 306-356).  A Ticker is what its three sources answer: fast_info (the    *)
(* property may raise, or be empty, or hold the four price fields),        *)
(* history(period="1d") (may raise, or hold closes, nan for a missing      *)
(* one) and info (may raise, or hold the two price fields).  A field is    *)
(* None when absent, Unparseable when float() rejects it.                  *)
(***************************************************************************)
FastInfo(raises, fields) == [raises |-> raises, fields |-> fields]

\* fields: last_price, lastPrice, last, regular_market_price; <<>> is an
\* empty (falsy) fast_info
FastInfoChoices ==
    { FastInfo(TRUE, <<>>),
      FastInfo(FALSE, <<>>),
      FastInfo(FALSE, <<None, None, None, None>>),
      FastInfo(FALSE, <<Num(150), None, None, Num(151)>>),
      FastInfo(FALSE, <<Num(0), None, None, Num(151)>>),
      FastInfo(FALSE, <<Num(0), None, None, None>>),
      FastInfo(FALSE, <<Unparseable, None, None, Num(151)>>) }

History(raises, closes) == [raises |-> raises, closes |-> closes]

HistoryChoices ==
    { History(TRUE, <<>>),
      History(FALSE, <<>>),
      History(FALSE, <<NaN>>),
      History(FALSE, <<Num(149)>>),
      History(FALSE, <<Num(148), NaN>>) }

\* fields: currentPrice, regularMarketPrice; <<>> is an info of None or {}
Info(raises, fields) == [raises |-> raises, fields |-> fields]

InfoChoices ==
    { Info(TRUE, <<>>),
      Info(FALSE, <<>>),
      Info(FALSE, <<Num(152), Num(153)>>),
      Info(FALSE, <<None, Num(153)>>),
      Info(FALSE, <<Unparseable, None>>) }

\* bool(x) of a field: None and 0 are falsy
FieldTruthy(x) == Truthy(x) \/ x.k = "bad"

\* a or b or ... over the fields, None for no field
RECURSIVE OrChain(_)
OrChain(fields) ==
    IF fields = <<>> THEN None
    ELSE IF Len(fields) = 1 \/ FieldTruthy(Head(fields)) THEN Head(fields)
    ELSE OrChain(Tail(fields))

\* `if p is not None: return float(p)` inside a try whose except passes:
\* the value returned, None when the source is left for the next one
FloatOrPass(p) == IF p.k \in {"num", "nan"} THEN p ELSE None

\* lines 309-325
FastInfoPrice(fast) ==
    IF fast.raises \/ fast.fields = <<>> THEN None ELSE FloatOrPass(OrChain(fast.fields))

\* lines 327-334: the last close that is not nan
HistoryClose(hist) ==
    LET close == SelectSeq(hist.closes, LAMBDA c : ~IsNaN(c))
    IN  IF hist.raises \/ Len(close) = 0 THEN None ELSE FloatOrPass(close[Len(close)])

\* lines 336-342
InfoPrice(info) ==
    IF info.raises THEN None ELSE FloatOrPass(OrChain(info.fields))

\* a fallback order that leaves the history out
SkipsHistory(position) == "yf_info"

\* the source _last_price turns to when the one at that position gave
\* nothing: fast_info, then history, then info
NextSource(position) == IF position = "yf_fast" THEN "yf_history" ELSE "yf_info"

NoTicker == [fast |-> FastInfo(FALSE, <<>>), hist |-> History(FALSE, <<>>), info |-> Info(FALSE, <<>>)]

YFIdle ==
    /\ yf_method = ""
    /\ yf_ticker = NoTicker
    /\ yf_consulted = <<>>
    /\ yf_result = NoResult

\* get_price(symbol) or get_fx_rate("USD", "JPY") is called; yf.Ticker of
\* the symbol or the pair is what _last_price reads
YFStart ==
    /\ entry = "yfinance"
    /\ pc = "yf_fast"
    /\ exc = ""
    /\ yf_method \in {"get_price", "get_fx_rate"}
    /\ \E f \in FastInfoChoices, h \in HistoryChoices, n \in InfoChoices :
          yf_ticker = [fast |-> f, hist |-> h, info |-> n]
    /\ yf_consulted = <<>>
    /\ yf_result = NoResult

\* _last_price returns p and the method returns it (lines 346-349, 353-356)
YFReturn(p) ==
    /\ yf_result' = Returned(p)
    /\ pc' = "yf_done"

\* lines 309-325: fast_info
YFFastInfo ==
    /\ pc = "yf_fast"
    /\ yf_consulted' = Append(yf_consulted, "fast_info")
    /\ LET p == FastInfoPrice(yf_ticker.fast)
       IN  IF p.k # "none" THEN YFReturn(p)
           ELSE /\ pc' = NextSource(pc)
                /\ yf_result' = yf_result
    /\ UNCHANGED <<entry, exc, yf_method, yf_ticker, rlVars, brVars, mainVars, mdVars,
                   csvVars, domVars, avVars, moreVars>>

\* lines 327-334: history(period="1d")
YFHistory ==
    /\ pc = "yf_history"
    /\ yf_consulted' = Append(yf_consulted, "history")
    /\ LET p == HistoryClose(yf_ticker.hist)
       IN  IF p.k # "none" THEN YFReturn(p)
           ELSE /\ pc' = NextSource(pc)
                /\ yf_result' = yf_result
    /\ UNCHANGED <<entry, exc, yf_method, yf_ticker, rlVars, brVars, mainVars, mdVars,
                   csvVars, domVars, avVars, moreVars>>

\* lines 336-343: info; when it gives nothing either _last_price returns
\* None and the method raises RuntimeError (lines 347-348, 354-355)
YFInfo ==
    /\ pc = "yf_info"
    /\ yf_consulted' = Append(yf_consulted, "info")
    /\ LET p == InfoPrice(yf_ticker.info)
       IN  IF p.k # "none" THEN YFReturn(p)
           ELSE /\ yf_result' = Raised("RuntimeError")
                /\ pc' = "yf_done"
    /\ UNCHANGED <<entry, exc, yf_method, yf_ticker, rlVars, brVars, mainVars, mdVars,
                   csvVars, domVars, avVars, moreVars>>

(***************************************************************************)
(* YFinanceProvider.previous_month_close and previous_year_close (lines    *)
(* 383-399), which read get_monthly_series (lines 452-486).  The monthly   *)
(* history of the ticker either raises or is a sequence of bars.           *)
(***************************************************************************)
MonthlyHistory(raises, bars) == [raises |-> raises, bars |-> bars]

\* idx.strftime("%Y-%m") of the j-th month counted from January 2023
MonthLabel(j) ==
    LET month == ((j - 1) % 12) + 1
    IN  ToString(2023 + ((j - 1) \div 12)) \o "-"
            \o (IF month < 10 THEN "0" ELSE "") \o ToString(month)

\* a history of n months whose closes are 101, 102, ..., with a missing
\* close (nan) in month `gap` when gap is in 1..n
BarsOf(n, gap) ==
    [j \in 1..n |-> Bar(MonthLabel(j), IF j = gap THEN NaN ELSE Num(100 + j))]

\* an index that counts one entry too few from the end
FromLastOffByOne(ser, k) == ser[Len(ser) - k + 2]

\* ser[-k] of a Python list
FromLast(ser, k) == ser[Len(ser) - k + 1]

\* lines 383-390 (k = 2) and 392-399 (k = 13): get_monthly_series(ticker,
\* months=k) inside a try whose except passes, then `return None`
PreviousClose(ticker, k) ==
    IF ticker.raises THEN None
    ELSE LET ser == GetMonthlySeries(ticker.bars, k)
         IN  IF Len(ser) >= k THEN FromLast(ser, k)[2] ELSE None

\* the months argument of the method's get_monthly_series call
MonthsOf(method) == IF method = "previous_month_close" THEN 2 ELSE 13

PrevIdle ==
    /\ pv_method = ""
    /\ pv_ticker = MonthlyHistory(FALSE, <<>>)
    /\ pv_result = NoResult


\* previous_month_close(ticker) or previous_year_close(ticker) is called
PrevStart ==
    /\ entry = "previous_close"
    /\ pc = "pv_called"
    /\ exc = ""
    /\ pv_method \in {"previous_month_close", "previous_year_close"}
    /\ \E raises \in BOOLEAN, n \in 0..MaxBars :
        \E gap \in 0..n : pv_ticker = MonthlyHistory(raises, BarsOf(n, gap))
    /\ pv_result = NoResult

\* lines 383-390: previous_month_close
PreviousMonthClose ==
    /\ pc = "pv_called"
    /\ pv_method = "previous_month_close"
    /\ pv_result' = Returned(PreviousClose(pv_ticker, MonthsOf(pv_method)))
    /\ pc' = "pv_done"
    /\ UNCHANGED <<entry, exc, pv_method, pv_ticker, rlVars, brVars, mainVars, mdVars,
                   csvVars, domVars, avVars, yfVars, syncVars>>

\* lines 392-399: previous_year_close
PreviousYearClose ==
    /\ pc = "pv_called"
    /\ pv_method = "previous_year_close"
    /\ pv_result' = Returned(PreviousClose(pv_ticker, MonthsOf(pv_method)))
    /\ pc' = "pv_done"
    /\ UNCHANGED <<entry, exc, pv_method, pv_ticker, rlVars, brVars, mainVars, mdVars,
                   csvVars, domVars, avVars, yfVars, syncVars>>

(***************************************************************************)
(* scripts/sync_portfolio_csv.py.  The ledger is the table behind          *)
(* /api/portfolio as the module docstring gives it (lines 18-21): GET      *)
(* lists the entries, POST inserts or replaces the entry of a symbol,      *)
(* DELETE removes it.                                                      *)
(***************************************************************************)
LedgerSymbols == {"7203.T", "AAPL", "MSFT"}

\* the order in which GET lists the entries
ListingOrder == <<"7203.T", "AAPL", "MSFT">>

Entry(shares, currency) == [present |-> TRUE, shares |-> shares, currency |-> currency]
Absent == [present |-> FALSE, shares |-> None, currency |-> ""]

\* the ledgers a run can meet: any subset of the symbols, one share each
LedgerChoices ==
    { [s \in LedgerSymbols |-> IF s \in present THEN Entry(Num(1), "USD") ELSE Absent] :
        present \in SUBSET LedgerSymbols }

\* a row of the CSV file as csv.DictReader gives it: strings, None (written
\* None for the shares, "" for the currency) for a missing column
CsvFileRow(symbol, shares, currency) ==
    [symbol |-> symbol, shares |-> shares, currency |-> currency]

CsvFileRows ==
    { CsvFileRow("AAPL", Num(10), "usd"),
      CsvFileRow("AAPL", Num(20), ""),
      CsvFileRow("7203.T", Num(5), "JPY"),
      CsvFileRow("", Num(1), "USD"),
      CsvFileRow(" MSFT ", Unparseable, " jpy") }

\* str.strip() on the strings that occur
Strip(t) ==
    CASE t = " MSFT " -> "MSFT"
      [] t = " jpy" -> "jpy"
      [] OTHER -> t

\* lines 93-109: read_csv
RECURSIVE ReadCsv(_)
ReadCsv(file) ==
    IF file = <<>> THEN <<>>
    ELSE LET row == Head(file)
             sym == Strip(row.symbol)
         IN  IF sym = "" THEN ReadCsv(Tail(file))
             ELSE <<Holding(sym,
                            IF row.shares.k \in {"num", "nan"} THEN row.shares ELSE Num(0),
                            Upper(Strip(row.currency)))>> \o ReadCsv(Tail(file))

\* lines 58-71: api_get_holdings on what GET answers
ApiGetHoldings(l) ==
    LET listed == SelectSeq(ListingOrder, LAMBDA s : l[s].present)
    IN  [j \in 1..Len(listed) |->
            Holding(listed[j], l[listed[j]].shares, Upper(Strip(l[listed[j]].currency)))]

\* a plan that deletes in every mode
ToDeleteInEveryMode(mode, current, kept) ==
    LET keys == [j \in 1..Len(current) |-> current[j].symbol]
    IN  SelectSeq(keys, LAMBDA sym : \A j \in 1..Len(kept) : kept[j].symbol # sym)

\* lines 136-144: to_delete, the keys of cur_map that are no key of csv_map
ToDelete(mode, current, kept) ==
    LET keys == [j \in 1..Len(current) |-> current[j].symbol]
    IN  IF mode = "replace"
        THEN SelectSeq(keys, LAMBDA sym : \A j \in 1..Len(kept) : kept[j].symbol # sym)
        ELSE <<>>

\* POST /api/portfolio {symbol, shares, currency}: INSERT OR REPLACE
Post(l, h) == [l EXCEPT ![h.symbol] = Entry(h.shares, h.currency)]

\* DELETE /api/portfolio?symbol=XXXX
Delete(l, sym) == [l EXCEPT ![sym] = Absent]

SyncIdle ==
    /\ sy_args = [mode |-> "", dry_run |-> FALSE]
    /\ sy_file = <<>>
    /\ ledger = [s \in LedgerSymbols |-> Absent]
    /\ ledger_before = [s \in LedgerSymbols |-> Absent]
    /\ csv_holdings = <<>>
    /\ to_delete = <<>>
    /\ sy_k = 1
    /\ sy_requests = <<>>
    /\ sy_stdout = <<>>
    /\ sy_status = -1

MoreIdle == PrevIdle /\ SyncIdle

\* main() is entered with its arguments parsed (line 122)
SyncStart ==
    /\ entry = "sync"
    /\ pc = "sy_read_csv"
    /\ exc = ""
    /\ sy_args \in [mode : {"upsert", "replace"}, dry_run : BOOLEAN]
    /\ sy_file \in SeqsUpTo(CsvFileRows, MaxHoldings)
    /\ ledger \in LedgerChoices
    /\ ledger_before = ledger
    /\ csv_holdings = <<>>
    /\ to_delete = <<>>
    /\ sy_k = 1
    /\ sy_requests = <<>>
    /\ sy_stdout = <<>>
    /\ sy_status = -1

\* an exception no except clause of main() names leaves the process with a
\* traceback and status 1
SyncUncaught(e) ==
    /\ exc' = e
    /\ sy_status' = 1
    /\ pc' = "sy_done"

\* lines 123-124: the CSV is read
SyncReadCsv ==
    /\ pc = "sy_read_csv"
    /\ csv_holdings' = ReadCsv(sy_file)
    /\ pc' = "sy_get"
    /\ UNCHANGED <<entry, exc, sy_args, sy_file, ledger, ledger_before, to_delete, sy_k,
                   sy_requests, sy_stdout, sy_status>>
    /\ UNCHANGED <<rlVars, brVars, mainVars, mdVars, csvVars, domVars, avVars, yfVars, prevVars>>

\* lines 125-127: the file does not exist
SyncCsvNotFound ==
    /\ pc = "sy_read_csv"
    /\ sy_status' = 2
    /\ pc' = "sy_done"
    /\ UNCHANGED <<entry, exc, sy_args, sy_file, ledger, ledger_before, csv_holdings, to_delete,
                   sy_k, sy_requests, sy_stdout>>
    /\ UNCHANGED <<rlVars, brVars, mainVars, mdVars, csvVars, domVars, avVars, yfVars, prevVars>>

\* lines 129-155: the ledger is listed, the deletions are planned and
\* announced
SyncGetHoldings ==
    /\ pc = "sy_get"
    /\ LET plan == ToDelete(sy_args.mode, ApiGetHoldings(ledger), csv_holdings)
       IN  /\ to_delete' = plan
           /\ sy_stdout' = sy_stdout \o (IF plan # <<>> THEN << <<"delete", Len(plan)>> >> ELSE <<>>)
    /\ sy_k' = 1
    /\ pc' = "sy_delete"
    /\ UNCHANGED <<entry, exc, sy_args, sy_file, ledger, ledger_before, csv_holdings,
                   sy_requests, sy_status>>
    /\ UNCHANGED <<rlVars, brVars, mainVars, mdVars, csvVars, domVars, avVars, yfVars, prevVars>>

\* lines 131-133: the GET request fails with URLError
SyncGetFails ==
    /\ pc = "sy_get"
    /\ sy_status' = 3
    /\ pc' = "sy_done"
    /\ UNCHANGED <<entry, exc, sy_args, sy_file, ledger, ledger_before, csv_holdings, to_delete,
                   sy_k, sy_requests, sy_stdout>>
    /\ UNCHANGED <<rlVars, brVars, mainVars, mdVars, csvVars, domVars, avVars, yfVars, prevVars>>

\* lines 152-153, one iteration: api_delete (lines 85-90)
SyncDelete ==
    /\ pc = "sy_delete"
    /\ sy_k <= Len(to_delete)
    /\ IF sy_args.dry_run
       THEN /\ sy_stdout' = Append(sy_stdout, <<"DELETE", to_delete[sy_k]>>)
            /\ UNCHANGED <<ledger, sy_requests>>
       ELSE /\ sy_requests' = Append(sy_requests, <<"DELETE", to_delete[sy_k]>>)
            /\ ledger' = Delete(ledger, to_delete[sy_k])
            /\ UNCHANGED sy_stdout
    /\ sy_k' = sy_k + 1
    /\ UNCHANGED <<entry, pc, exc, sy_args, sy_file, ledger_before, csv_holdings, to_delete,
                   sy_status>>
    /\ UNCHANGED <<rlVars, brVars, mainVars, mdVars, csvVars, domVars, avVars, yfVars, prevVars>>

\* line 155: the deletions are done, the upserts are announced
SyncAnnounceUpserts ==
    /\ pc = "sy_delete"
    /\ sy_k > Len(to_delete)
    /\ sy_stdout' = Append(sy_stdout, <<"upsert", Len(csv_holdings)>>)
    /\ sy_k' = 1
    /\ pc' = "sy_upsert"
    /\ UNCHANGED <<entry, exc, sy_args, sy_file, ledger, ledger_before, csv_holdings, to_delete,
                   sy_requests, sy_status>>
    /\ UNCHANGED <<rlVars, brVars, mainVars, mdVars, csvVars, domVars, avVars, yfVars, prevVars>>

\* lines 156-157, one iteration: api_upsert (lines 74-82)
SyncUpsert ==
    /\ pc = "sy_upsert"
    /\ sy_k <= Len(csv_holdings)
    /\ IF sy_args.dry_run
       THEN /\ sy_stdout' = Append(sy_stdout, <<"POST", csv_holdings[sy_k].symbol>>)
            /\ UNCHANGED <<ledger, sy_requests>>
       ELSE /\ sy_requests' = Append(sy_requests, <<"POST", csv_holdings[sy_k].symbol>>)
            /\ ledger' = Post(ledger, csv_holdings[sy_k])
            /\ UNCHANGED sy_stdout
    /\ sy_k' = sy_k + 1
    /\ UNCHANGED <<entry, pc, exc, sy_args, sy_file, ledger_before, csv_holdings, to_delete,
                   sy_status>>
    /\ UNCHANGED <<rlVars, brVars, mainVars, mdVars, csvVars, domVars, avVars, yfVars, prevVars>>

\* a DELETE or POST request fails (_http_json raises, lines 47-55): nothing
\* in main() catches it
SyncRequestFails ==
    /\ ~sy_args.dry_run
    /\ \/ /\ pc = "sy_delete"
          /\ sy_k <= Len(to_delete)
          /\ sy_requests' = Append(sy_requests, <<"DELETE", to_delete[sy_k]>>)
       \/ /\ pc = "sy_upsert"
          /\ sy_k <= Len(csv_holdings)
          /\ sy_requests' = Append(sy_requests, <<"POST", csv_holdings[sy_k].symbol>>)
    /\ SyncUncaught("URLError")
    /\ UNCHANGED <<entry, sy_args, sy_file, ledger, ledger_before, csv_holdings, to_delete,
                   sy_k, sy_stdout>>
    /\ UNCHANGED <<rlVars, brVars, mainVars, mdVars, csvVars, domVars, avVars, yfVars, prevVars>>

\* lines 159-160: print("完了"); return 0
SyncReturn ==
    /\ pc = "sy_upsert"
    /\ sy_k > Len(csv_holdings)
    /\ sy_stdout' = Append(sy_stdout, <<"done", 0>>)
    /\ sy_status' = 0
    /\ pc' = "sy_done"
    /\ UNCHANGED <<entry, exc, sy_args, sy_file, ledger, ledger_before, csv_holdings, to_delete,
                   sy_k, sy_requests>>
    /\ UNCHANGED <<rlVars, brVars, mainVars, mdVars, csvVars, domVars, avVars, yfVars, prevVars>>

(***************************************************************************)
(* The specifications, one per entry point.                                *)
(***************************************************************************)
ExtIdle == CsvIdle /\ DomIdle /\ AVIdle /\ YFIdle /\ MoreIdle

RLIdle ==
    /\ limit = 1
    /\ per_seconds = TicksPerSecond
    /\ times = <<>>
    /\ clock = 0
    /\ recorded = <<>>
    /\ sleeps = 0

\* a RateLimiter driven by a sequence of acquire() calls
RLInit ==
    /\ entry = "rate_limiter"
    /\ pc = "idle"
    /\ exc = ""
    /\ RLStart
    /\ BRIdle
    /\ MainIdle
    /\ MDIdle
    /\ ExtIdle

RLNext == Acquire

SpecRL == RLInit /\ [][RLNext]_vars

\* The valuation pipeline: either build_rows is called on arbitrary
\* arguments, or main() runs and calls it on what it loaded and fetched.
Init ==
    /\ RLIdle
    /\ MDIdle
    /\ ExtIdle
    /\ \/ BRStart /\ MainIdle
       \/ MainStart

Next ==
    \/ MainLoadConfig
    \/ MainLoadPortfolio
    \/ MainLoadPortfolioFails
    \/ MainProvider
    \/ MainProviderFails
    \/ MainFetchPrice
    \/ MainFetchPriceFails
    \/ MainGetFx
    \/ MainGetFxFails
    \/ MainCallBuildRows
    \/ BREnter
    \/ BRIterate
    \/ BRRaise
    \/ BRReturn
    \/ MainSort
    \/ MainFormatReport
    \/ MainEmit
    \/ MainInterrupt

Spec == Init /\ [][Next]_vars

\* build_monthly_dataset called on arbitrary holdings and histories
MDInit == MDStart /\ RLIdle /\ MainIdle /\ ExtIdle

MDNext == MDUnsupported \/ MDFetchFx \/ MDIterate \/ MDRaise \/ MDReturn

SpecMonthly == MDInit /\ [][MDNext]_vars

\* dataset_to_csv called on arbitrary datasets
CsvInit == CsvStart /\ RLIdle /\ BRIdle /\ MainIdle /\ DomIdle /\ AVIdle /\ YFIdle /\ MoreIdle

CsvNext == CsvCall

SpecCsv == CsvInit /\ [][CsvNext]_vars

\* the report's script at work on a table
DomInit == DomStart /\ RLIdle /\ BRIdle /\ MainIdle /\ MDIdle /\ CsvIdle /\ AVIdle /\ YFIdle /\ MoreIdle

DomNext == DomContentLoaded \/ DomClick

SpecDom == DomInit /\ [][DomNext]_vars

\* an AlphaVantageProvider serving a sequence of calls
AVInit == AVStart /\ BRIdle /\ MainIdle /\ MDIdle /\ CsvIdle /\ DomIdle /\ YFIdle /\ MoreIdle

AVNext ==
    \/ AVCall
    \/ AVAcquire
    \/ AVGlobalQuote
    \/ AVTimeSeriesDaily
    \/ AVCurrencyExchangeRate

SpecAV == AVInit /\ [][AVNext]_vars

\* one get_price / get_fx_rate call of a YFinanceProvider
YFInit == YFStart /\ RLIdle /\ BRIdle /\ MainIdle /\ MDIdle /\ CsvIdle /\ DomIdle /\ AVIdle /\ MoreIdle

YFNext == YFFastInfo \/ YFHistory \/ YFInfo

SpecYF == YFInit /\ [][YFNext]_vars

\* one previous_month_close / previous_year_close call of a YFinanceProvider
PrevInit ==
    /\ PrevStart
    /\ RLIdle /\ BRIdle /\ MainIdle /\ MDIdle /\ CsvIdle /\ DomIdle /\ AVIdle /\ YFIdle /\ SyncIdle

PrevNext == PreviousMonthClose \/ PreviousYearClose

SpecPrev == PrevInit /\ [][PrevNext]_vars

\* one run of scripts/sync_portfolio_csv.py
SyncInit ==
    /\ SyncStart
    /\ RLIdle /\ BRIdle /\ MainIdle /\ MDIdle /\ CsvIdle /\ DomIdle /\ AVIdle /\ YFIdle /\ PrevIdle

SyncNext ==
    \/ SyncReadCsv
    \/ SyncCsvNotFound
    \/ SyncGetHoldings
    \/ SyncGetFails
    \/ SyncDelete
    \/ SyncAnnounceUpserts
    \/ SyncUpsert
    \/ SyncRequestFails
    \/ SyncReturn

SpecSync == SyncInit /\ [][SyncNext]_vars

(***************************************************************************)
(* Properties.                                                             *)
(***************************************************************************)
\* C1: with limit >= 1, a clock that never goes back and sleeps that last at
\* least as long as asked, any limit + 1 recorded acquire() timestamps span
\* at least per_seconds, so no window of length per_seconds holds more than
\* limit of them; with limit 2 and one second, the third of three calls is
\* recorded at least one second after the first.
C1_WindowBound ==
    /\ \A a, b \in 1..Len(recorded) :
          b - a >= limit => recorded[b] - recorded[a] >= per_seconds
    /\ (limit = 2 /\ per_seconds = TicksPerSecond /\ Len(recorded) >= 3)
          => recorded[3] >= recorded[1] + TicksPerSecond

\* three back-to-back calls on a limiter of 2 per second: the third one slept
C1_ThirdCallBlocked ==
    /\ limit = 2
    /\ per_seconds = TicksPerSecond
    /\ Len(recorded) = 3
    /\ recorded[2] = recorded[1]
    /\ sleeps = 1

\* the currency of a holding, as a code: unset is USD, case is ignored
C4_Unsupported(h) ==
    Upper(IF h.currency = "" THEN "USD" ELSE h.currency) \notin {"USD", "JPY"}

C4_FirstUnsupported ==
    CHOOSE k \in 1..Len(holdings) :
        /\ C4_Unsupported(holdings[k])
        /\ \A j \in 1..(k - 1) : ~C4_Unsupported(holdings[j])

\* C4: when some holding, at whatever position, has a currency other than
\* USD or JPY, the loop of build_rows never gets past that holding and ends
\* in ValueError, nothing is returned to the caller, and a run of main()
\* prints no report, writes no HTML file and ends with a non-zero status.
C4_UnsupportedCurrencyAborts ==
    (\E k \in 1..Len(holdings) : C4_Unsupported(holdings[k])) =>
        /\ ~ret.returned
        /\ pc \in {"br_loop", "br_raised"} => i <= C4_FirstUnsupported
        /\ pc = "br_raised" => exc = "ValueError"
        /\ pc \notin {"br_returned", "sort", "format_report", "emit"}
        /\ stdout = <<>>
        /\ html_file = <<>>
        /\ (entry = "main" /\ pc = "done") => status # ExitOk

\* main() ran into an unsupported currency after a row had been built
C4_AbortedAfterARow ==
    /\ entry = "main"
    /\ pc = "done"
    /\ failed_at = "build_rows"
    /\ Len(rows) >= 1
    /\ status = ExitError
    /\ ~ret.returned

\* the price fetched for the holding the row was built from
C5_Fetched(k) == prices[holdings[k].symbol]

C5_PositiveRate == IsNum(usd_jpy) /\ usd_jpy.n > 0

\* C5: a row built for a USD holding whose price was fetched, under a rate
\* r > 0, has usd_price = the fetched price, jpy_price = usd_price * r,
\* usd_value = shares * usd_price and jpy_value = shares * jpy_price.
C5_UsdRow ==
    \A k \in 1..Len(rows) :
        (rows[k].currency = "USD" /\ C5_PositiveRate /\ C5_Fetched(k).k # "none") =>
            /\ rows[k].usd_price = C5_Fetched(k)
            /\ rows[k].jpy_price = Mul(rows[k].usd_price, usd_jpy)
            /\ rows[k].usd_value = Mul(holdings[k].shares, rows[k].usd_price)
            /\ rows[k].jpy_value = Mul(holdings[k].shares, rows[k].jpy_price)
            /\ (IsNum(C5_Fetched(k)) =>
                   /\ IsNum(rows[k].jpy_value)
                   /\ rows[k].jpy_value.n * usd_jpy.d * holdings[k].shares.d * C5_Fetched(k).d
                        = rows[k].jpy_value.d * usd_jpy.n * holdings[k].shares.n * C5_Fetched(k).n)

\* half a share of AAPL at 150 USD under a rate of 150: 75 USD, 11250 JPY
C5_UsdRowBuilt ==
    /\ Len(rows) >= 1
    /\ holdings[1] = Holding("AAPL", Rat(1, 2), "usd")
    /\ usd_jpy = Num(150)
    /\ rows[1].usd_value = Num(75)
    /\ rows[1].jpy_value = Num(11250)

\* C6: a row built for a JPY holding has jpy_price = the fetched price and
\* jpy_value = shares * jpy_price whatever the rate is; usd_price is
\* jpy_price / r for a rate r > 0, and for a rate that is None or zero
\* usd_price and usd_value are not-a-number, never zero.
C6_JpyRow ==
    \A k \in 1..Len(rows) :
        (rows[k].currency = "JPY" /\ C5_Fetched(k).k # "none") =>
            /\ rows[k].jpy_price = C5_Fetched(k)
            /\ rows[k].jpy_value = Mul(holdings[k].shares, C5_Fetched(k))
            /\ C5_PositiveRate =>
                  /\ rows[k].usd_price = Div(rows[k].jpy_price, usd_jpy)
                  /\ rows[k].usd_value = Mul(holdings[k].shares, rows[k].usd_price)
                  /\ (IsNum(C5_Fetched(k)) =>
                         rows[k].usd_price.n * usd_jpy.n * C5_Fetched(k).d
                            = rows[k].usd_price.d * usd_jpy.d * C5_Fetched(k).n)
            /\ (usd_jpy.k = "none" \/ IsZero(usd_jpy)) =>
                  /\ IsNaN(rows[k].usd_price)
                  /\ IsNaN(rows[k].usd_value)

\* a JPY holding with a fetched price, valued without a rate
C6_JpyRowWithoutRate ==
    /\ Len(rows) >= 1
    /\ rows[1].currency = "JPY"
    /\ usd_jpy = None
    /\ rows[1].jpy_value = Num(15000)
    /\ IsNaN(rows[1].usd_value)

\* the sum of the values of a column that are numbers
RECURSIVE C7_FiniteSum(_, _)
C7_FiniteSum(rs, field) ==
    IF rs = <<>> THEN Num(0)
    ELSE LET rest == C7_FiniteSum(Tail(rs), field)
         IN  IF IsNum(Head(rs)[field]) THEN Add(Head(rs)[field], rest) ELSE rest

\* C7: the totals build_rows returns and the totals format_report computes
\* leave out the rows whose value is not-a-number: each equals the sum of
\* the values that are numbers.
C7_TotalsExcludeNaN ==
    /\ ret.returned =>
          /\ ret.total_usd = C7_FiniteSum(ret.rows, "usd_value")
          /\ ret.total_jpy = C7_FiniteSum(ret.rows, "jpy_value")
    /\ pc = "emit" =>
          /\ report.totals[1] = C7_FiniteSum(main_rows, "usd_value")
          /\ report.totals[2] = C7_FiniteSum(main_rows, "jpy_value")

\* the sum of a column, folded from the right
RECURSIVE C8_Sum(_, _)
C8_Sum(rs, field) ==
    IF rs = <<>> THEN Num(0) ELSE Add(Head(rs)[field], C8_Sum(Tail(rs), field))

C8_AllPriced == \A k \in 1..Len(holdings) : IsNum(prices[holdings[k].symbol])

C8_Example ==
    /\ holdings = <<Holding("AAPL", Num(10), "USD"), Holding("7203.T", Num(5), "JPY")>>
    /\ prices["AAPL"] = Num(150)
    /\ prices["7203.T"] = Num(3000)
    /\ usd_jpy = Num(150)

\* C8: when every holding has a price and the rate is positive, build_rows
\* returns one row per holding and totals equal to the sums of the rows'
\* usd_value and jpy_value; the two-holding example gives 1500/225000 and
\* 100/15000, totals 1600 and 240000.
C8_TotalsAreSums ==
    (ret.returned /\ C8_AllPriced /\ C5_PositiveRate) =>
        /\ Len(ret.rows) = Len(holdings)
        /\ IsNum(ret.total_usd) /\ IsNum(ret.total_jpy)
        /\ ret.total_usd = C8_Sum(ret.rows, "usd_value")
        /\ ret.total_jpy = C8_Sum(ret.rows, "jpy_value")
        /\ C8_Example =>
              /\ ret.rows[1].usd_value = Num(1500) /\ ret.rows[1].jpy_value = Num(225000)
              /\ ret.rows[2].usd_value = Num(100) /\ ret.rows[2].jpy_value = Num(15000)
              /\ ret.total_usd = Num(1600) /\ ret.total_jpy = Num(240000)

\* build_rows returned on the two-holding example
C8_ExampleReturned == ret.returned /\ C8_Example /\ ret.total_usd = Num(1600)

\* what a finished run of main() was: the step that failed decides
C3_Category ==
    CASE failed_at \in {"load_config", "provider"} -> "configuration"
      [] failed_at \in {"get_price", "get_fx_rate"} -> "fetch"
      [] failed_at = "interrupt" -> "interrupt"
      [] failed_at = "" /\ holdings = <<>> -> "empty"
      [] failed_at = "" /\ holdings # <<>> -> "success"
      [] OTHER -> "other"

C3_Finished == entry = "main" /\ pc = "done"

\* C2: a run of main() whose configuration loaded, whose holdings are
\* non-empty and all in USD or JPY and whose get_price and get_fx_rate calls
\* all succeeded, has printed the text report and returned 0 when it ends.
C2_SuccessfulRunReports ==
    ( /\ C3_Finished
      /\ failed_at \notin {"load_config", "load_portfolio", "provider", "get_price",
                            "get_fx_rate", "interrupt"}
      /\ holdings # <<>>
      /\ \A k \in 1..Len(holdings) : ~C4_Unsupported(holdings[k]) )
    => (status = ExitOk /\ Len(stdout) = 1)

\* the status main() returns for each kind of run
C3_StatusOfCategory(c) ==
    CASE c = "success" -> ExitOk
      [] c = "empty" -> ExitEmpty
      [] c = "interrupt" -> ExitInterrupted
      [] OTHER -> ExitError

C9_Lengths(r, n) ==
    /\ Len(r.usd_price) = n
    /\ Len(r.usd_value) = n
    /\ Len(r.jpy_price) = n
    /\ Len(r.jpy_value) = n

\* C9: in a dataset build_monthly_dataset returns, the four series of every
\* holding and the fx series have exactly len(months) entries, whichever
\* months the holding's own series covers.
C9_SeriesLengths ==
    (dataset.returned /\ ~dataset.none) =>
        /\ Len(dataset.fx) = Len(dataset.months)
        /\ Len(dataset.rows) = Len(holdings)
        /\ \A k \in 1..Len(dataset.rows) : C9_Lengths(dataset.rows[k], Len(dataset.months))

\* a dataset over three months, of a holding without any observation and a
\* holding observed in a month that is not on the axis
C9_UnevenSeries ==
    /\ dataset.returned
    /\ Len(dataset.months) = 3
    /\ Len(dataset.rows) = 2
    /\ sers[1] = <<>>
    /\ \E j \in 1..Len(sers[2]) : sers[2][j][1] = "2024-04"

\* whether a series has an entry of that label, and its last such entry
C10_Observed(ser, label) == \E j \in 1..Len(ser) : ser[j][1] = label

RECURSIVE C10_Last(_, _, _)
C10_Last(ser, label, j) ==
    IF j = 0 THEN NaN
    ELSE IF ser[j][1] = label THEN ser[j][2]
    ELSE C10_Last(ser, label, j - 1)

\* C10: each holding's series is placed on the FX month axis by label.  At
\* the index of a month M the raw-currency price is the holding's
\* observation for M, and all four series are not-a-number when it has
\* none; the counterpart-currency price is the raw price times (USD
\* holdings) or divided by (other holdings) the FX value of M itself, and
\* not-a-number when the raw price is missing or, for the division, the FX
\* value is zero; the values are shares times the prices.
C10_AlignedByLabel ==
    (dataset.returned /\ ~dataset.none) =>
        \A k \in 1..Len(dataset.rows) : \A j \in 1..Len(dataset.months) :
            LET r == dataset.rows[k]
                label == dataset.months[j]
                obs == C10_Observed(sers[k], label)
                px == C10_Last(sers[k], label, Len(sers[k]))
                fx == C10_Last(fx_pairs, label, Len(fx_pairs))
                raw == IF r.currency = "USD" THEN r.usd_price[j] ELSE r.jpy_price[j]
                other == IF r.currency = "USD" THEN r.jpy_price[j] ELSE r.usd_price[j]
            IN  /\ dataset.fx[j] = fx
                /\ raw = px
                /\ ~obs => /\ IsNaN(r.usd_price[j]) /\ IsNaN(r.usd_value[j])
                           /\ IsNaN(r.jpy_price[j]) /\ IsNaN(r.jpy_value[j])
                /\ (obs /\ r.currency = "USD") => other = Mul(px, fx)
                /\ (obs /\ r.currency # "USD" /\ ~IsZero(fx)) => other = Div(px, fx)
                /\ (r.currency # "USD" /\ IsZero(fx)) => IsNaN(other)
                /\ r.usd_value[j] = Mul(holdings[k].shares, r.usd_price[j])
                /\ r.jpy_value[j] = Mul(holdings[k].shares, r.jpy_price[j])
                /\ other.k \in {"num", "nan"}

\* a JPY holding observed at 6, 12 and 20 over three months whose FX values
\* are 2, 0 and 4: its USD prices are 3, not-a-number and 5
C10_ZeroFxMonth ==
    /\ dataset.returned
    /\ dataset.fx = <<Num(2), Num(0), Num(4)>>
    /\ Len(dataset.rows) >= 1
    /\ dataset.rows[1].currency = "JPY"
    /\ dataset.rows[1].usd_price = <<Num(3), NaN, Num(5)>>
    /\ dataset.rows[1].usd_value = <<Rat(15, 2), NaN, Rat(25, 2)>>

\* whether the labels of a series of (label, close) pairs are pairwise distinct
C11_Distinct(pairs) ==
    \A a, b \in 1..Len(pairs) : a # b => pairs[a][1] # pairs[b][1]

\* C11: every series get_monthly_series returned has at most `months`
\* entries and pairwise-distinct labels, also when the history holds two
\* observations of one month, and so the month axis of a returned dataset
\* has no label twice.
C11_MonthlySeries ==
    /\ Len(fx_pairs) <= months
    /\ C11_Distinct(fx_pairs)
    /\ \A k \in 1..Len(sers) : Len(sers[k]) <= months /\ C11_Distinct(sers[k])
    /\ (dataset.returned /\ ~dataset.none) =>
          \A a, b \in 1..Len(dataset.months) :
              a # b => dataset.months[a] # dataset.months[b]

\* C12: the text dataset_to_csv returns is the header line of the nine
\* column names followed by len(months) * len(rows) data lines; the line of
\* month i and holding k is line (i - 1) * len(rows) + k (month first, then
\* holding order) and has nine fields, the first four being the month, the
\* symbol, the shares and the currency.
C12_CsvShape ==
    csv.returned =>
        LET nmonths == Len(dataset.months)
            nrows == Len(dataset.rows)
        IN  /\ csv.header = CsvHeader
            /\ Len(csv.header) = 9
            /\ Len(csv.lines) = nmonths * nrows
            /\ \A mth \in 1..nmonths : \A k \in 1..nrows :
                  LET line == csv.lines[(mth - 1) * nrows + k]
                  IN  /\ Len(line) = 9
                      /\ line[1] = dataset.months[mth]
                      /\ line[2] = dataset.rows[k].symbol
                      /\ line[3] = dataset.rows[k].shares
                      /\ line[4] = dataset.rows[k].currency

\* two months and two different holdings give four data lines, the two
\* holdings of the first month first
C12_TwoByTwo ==
    /\ csv.returned
    /\ Len(dataset.months) = 2
    /\ Len(dataset.rows) = 2
    /\ dataset.rows[1].symbol = "AAPL"
    /\ dataset.rows[2].symbol = "7203.T"
    /\ Len(csv.lines) = 4
    /\ csv.lines[2][1] = "2024-01"
    /\ csv.lines[2][2] = "7203.T"
    /\ csv.lines[3][1] = "2024-02"
    /\ csv.lines[3][2] = "AAPL"

\* what a field shows for the value at an index of a list: empty when the
\* index is out of range or the value is nan or None, else a number within
\* half a unit of the sixth decimal of the value
C13_Shows(field, lst, idx) ==
    IF idx > Len(lst) \/ lst[idx].k # "num"
    THEN field.text = ""
    ELSE /\ field.text = "num"
         /\ 2 * Abs(field.scaled * lst[idx].d - lst[idx].n * Pow10(6)) <= lst[idx].d

\* C13: in every data line each of the five numeric fields is the empty
\* string when its value is not-a-number, None or missing at the month's
\* index, and otherwise the value rounded to six decimals.
C13_CsvNumbers ==
    csv.returned =>
        \A mth \in 1..Len(dataset.months) : \A k \in 1..Len(dataset.rows) :
            LET line == csv.lines[(mth - 1) * Len(dataset.rows) + k]
                r == dataset.rows[k]
            IN  /\ C13_Shows(line[5], r.usd_price, mth)
                /\ C13_Shows(line[6], r.usd_value, mth)
                /\ C13_Shows(line[7], r.jpy_price, mth)
                /\ C13_Shows(line[8], r.jpy_value, mth)
                /\ C13_Shows(line[9], dataset.fx, mth)

\* the line of the second month of a holding whose USD price is 2/3, whose
\* USD value list is too short and whose month has the FX value 0: it shows
\* 0.666667, an empty field and 0.000000
C13_EmptyAndRounded ==
    /\ csv.returned
    /\ Len(csv.lines) = 2
    /\ csv.lines[2][2] = "7203.T"
    /\ csv.lines[1][5].text = ""
    /\ csv.lines[1][7].text = ""
    /\ csv.lines[1][9].text = ""
    /\ csv.lines[2][5] = [text |-> "num", scaled |-> 666667]
    /\ csv.lines[2][6].text = ""
    /\ csv.lines[2][9] = [text |-> "num", scaled |-> 0]

\* whether main() has sorted its rows by a value column
C14_Sorted == args.sort_by \in {"usd", "jpy"} /\ pc \notin {"sort", "br_start", "br_loop"}

\* C14: once main() has sorted the rows by usd_value or jpy_value, in
\* either direction, no row whose sort value is not-a-number stands before
\* a row with a finite one, and the rows with finite values are in the
\* order asked for.
C14_NaNLast ==
    C14_Sorted =>
        \A a, b \in 1..Len(main_rows) :
            LET ka == SortKey(main_rows[a], args.sort_by)
                kb == SortKey(main_rows[b], args.sort_by)
            IN  a < b =>
                  /\ IsNaN(ka) => IsNaN(kb)
                  /\ (IsNum(ka) /\ IsNum(kb)) =>
                        IF args.sort_order = "desc" THEN ~Less(ka, kb) ELSE ~Less(kb, ka)

\* whether two body rows, the first standing above the second, are in the
\* order a sort of that column and direction asks for
C15_InOrder(above, below, col, asc) ==
    IF col = ColSymbol
    THEN LET c == CompareUnits(CodeUnits(ToUpperCase(above.symbol)),
                               CodeUnits(ToUpperCase(below.symbol)))
         IN  IF asc THEN c <= 0 ELSE c >= 0
    ELSE LET x == DataValue(above, col)
             y == DataValue(below, col)
         IN  /\ x.text = "" => y.text = ""
             /\ (x.text = "num" /\ y.text = "num") =>
                   IF asc THEN x.scaled <= y.scaled ELSE x.scaled >= y.scaled

\* C15: after the script sorted a table, by the load handler or by a click,
\* the body rows are in lexicographic order of the symbol for column 0 and
\* in numeric order of the data-value for another column, ascending or
\* descending as asked, with every row whose value is no finite number
\* below all rows that have one, in both directions; and the sort the load
\* handler applies is column JPY_VALUE (12) descending.
C15_ClientSort ==
    /\ (pc \in {"dom_loaded", "dom_clicked"} /\ tbody # <<>>) =>
          /\ data_asc.col \in DomCols
          /\ indicator = data_asc
          /\ \A a, b \in 1..Len(tbody) :
                a < b => C15_InOrder(tbody[a], tbody[b], data_asc.col, data_asc.asc)
    /\ (pc = "dom_loaded" /\ tbody # <<>>) =>
          data_asc = [col |-> ColJpyValue, asc |-> FALSE]

\* a table of three rows after a click sorted it ascending by JPY_VALUE:
\* 100, 300, and the row without a value at the bottom
C15_NaNAtBottomAscending ==
    /\ pc = "dom_clicked"
    /\ data_asc = [col |-> ColJpyValue, asc |-> TRUE]
    /\ Len(tbody) = 3
    /\ tbody[1].jpy_value = [text |-> "num", scaled |-> 100000000]
    /\ tbody[2].jpy_value = [text |-> "num", scaled |-> 300000000]
    /\ tbody[3].jpy_value.text = ""

\* whether main() has called format_report_html and the call is over
C16_Called == entry = "main" /\ (failed_at = "format_report_html" \/ status = ExitOk)

\* C16: format_report_html(rows, usd_jpy), called without a monthly
\* dataset, returns a document that holds every input row exactly once, a
\* row of currency JPY in the domestic table and any other row in the
\* foreign-currency table, each table's TOTAL being the sum of its rows and
\* the overall total the sum over both tables.
C16_HtmlTables ==
    C16_Called =>
        LET jpy_rows == SelectSeq(main_rows, LAMBDA r : r.currency = "JPY")
            usd_rows == SelectSeq(main_rows, LAMBDA r : r.currency # "JPY")
        IN  /\ html_report.returned
            /\ html_report.jpy_table = jpy_rows
            /\ html_report.usd_table = usd_rows
            /\ html_report.jpy_table_total[1] = Fixed(ReportTotal(jpy_rows, "usd_value", Num(0)), 2)
            /\ html_report.jpy_table_total[2] = Fixed(ReportTotal(jpy_rows, "jpy_value", Num(0)), 0)
            /\ html_report.usd_table_total[1] = Fixed(ReportTotal(usd_rows, "usd_value", Num(0)), 2)
            /\ html_report.usd_table_total[2] = Fixed(ReportTotal(usd_rows, "jpy_value", Num(0)), 0)
            /\ html_report.overall_usd =
                  Fixed(Add(ReportTotal(jpy_rows, "usd_value", Num(0)),
                            ReportTotal(usd_rows, "usd_value", Num(0))), 2)
            /\ html_report.overall_jpy =
                  Fixed(Add(ReportTotal(jpy_rows, "jpy_value", Num(0)),
                            ReportTotal(usd_rows, "jpy_value", Num(0))), 0)

\* a get_price / get_fx_rate call of the provider is over
C17_Finished(method) == pc = "av_idle" /\ av_call = method /\ av_result.k # "none"

\* the close of the entry with the greatest date of a daily series, None
\* when the series is empty or that entry has no parseable close
C17_LatestClose(data) ==
    IF \E j \in 1..Len(data.series) :
          /\ \A l \in 1..Len(data.series) : data.series[l].date <= data.series[j].date
          /\ IsNum(data.series[j].close)
    THEN (CHOOSE c \in {data.series[j].close : j \in 1..Len(data.series)} :
             \E j \in 1..Len(data.series) :
                /\ \A l \in 1..Len(data.series) : data.series[l].date <= data.series[j].date
                /\ data.series[j].close = c)
    ELSE None

\* how often a request function occurs in the trace of the call
C17_Count(function) == Cardinality({j \in 1..Len(av_trace) : av_trace[j] = function})

\* a response that arrived with a success status and no advisory field
C17_Clean(data) ==
    /\ data.received /\ data.http_ok
    /\ data.note = "" /\ data.error_message = "" /\ data.information = ""

\* C17 as stated: get_price returns the quote's price whenever the price
\* field is present and parseable, else issues one daily-series request and
\* returns the latest close, and fails only when the quote's price and the
\* daily series' latest close are both unavailable.
C17_GetPrice ==
    C17_Finished("get_price") =>
        /\ IsNum(av_quote.price) => av_result = Returned(av_quote.price)
        /\ (av_quote.http_ok /\ ~IsNum(av_quote.price)) =>
              /\ C17_Count("TIME_SERIES_DAILY") = 1
              /\ IsNum(C17_LatestClose(av_daily)) => av_result = Returned(C17_LatestClose(av_daily))
        /\ av_result.k = "raised" =>
              (~IsNum(av_quote.price) /\ ~IsNum(C17_LatestClose(av_daily)))

\* C17, amended: when the quote response arrived without HTTP failure and
\* without advisory field, get_price returns its price if that is present
\* and parseable, and issues no daily-series request; otherwise it issues
\* exactly one daily-series request and, that response being clean too,
\* returns the close of the entry with the maximum date key, failing when
\* that entry has no parseable close.  The call fails exactly when a
\* response is an HTTP failure or carries an advisory, or when both the
\* quote's price and the latest daily close are unavailable.
C17_GetPriceCleanResponses ==
    C17_Finished("get_price") =>
        /\ (C17_Clean(av_quote) /\ IsNum(av_quote.price)) =>
              /\ av_result = Returned(av_quote.price)
              /\ C17_Count("TIME_SERIES_DAILY") = 0
        /\ (C17_Clean(av_quote) /\ ~IsNum(av_quote.price)) =>
              /\ C17_Count("TIME_SERIES_DAILY") = 1
              /\ av_daily.received
              /\ C17_Clean(av_daily) =>
                    IF IsNum(C17_LatestClose(av_daily))
                    THEN av_result = Returned(C17_LatestClose(av_daily))
                    ELSE av_result = Raised("RuntimeError")
        /\ av_result.k = "raised" <=>
              \/ ~C17_Clean(av_quote)
              \/ /\ ~IsNum(av_quote.price)
                 /\ (~C17_Clean(av_daily) \/ ~IsNum(C17_LatestClose(av_daily)))

\* a quote whose price float() rejects, then a daily series listing the
\* dates 1, 3, 2: the close of date 3 is returned
C17_FellBackToLatestClose ==
    /\ C17_Finished("get_price")
    /\ av_quote.price = Unparseable
    /\ Len(av_daily.series) = 3
    /\ av_daily.series[2].date = 3
    /\ av_result = Returned(Num(30))

\* C18: in every call of the provider the acquire() calls and the requests
\* alternate, an acquire() first: each request is preceded by exactly one
\* acquire() on the provider's limiter with no request between them.  Every
\* request thus holds one limiter slot of its own (a get_price that falls
\* back holds two), and any limit + 1 successive requests of the provider
\* span at least per_seconds.
C18_EveryRequestAcquires ==
    /\ \A j \in 1..Len(av_trace) :
          IF j % 2 = 1 THEN av_trace[j] = "acquire" ELSE av_trace[j] # "acquire"
    /\ Len(recorded) = Len(req_times)
                         + (IF pc \in {"quote_request", "daily_request", "fx_request"} THEN 1 ELSE 0)
    /\ \A k \in 1..Len(req_times) : req_times[k] = recorded[k]
    /\ \A k \in 1..Len(req_times) :
          k + limit <= Len(req_times) => req_times[k + limit] - req_times[k] >= per_seconds
    /\ (C17_Finished("get_price") /\ av_daily.received) =>
          av_trace = <<"acquire", "GLOBAL_QUOTE", "acquire", "TIME_SERIES_DAILY">>

\* a get_price that fell back, on a limiter of one slot: its second request
\* waited for the window of the first to pass
C18_FallbackTookTwoSlots ==
    /\ C17_Finished("get_price")
    /\ limit = 1
    /\ sleeps = 1
    /\ av_trace = <<"acquire", "GLOBAL_QUOTE", "acquire", "TIME_SERIES_DAILY">>
    /\ Len(req_times) = 2
    /\ req_times[2] - req_times[1] >= per_seconds

\* a response that carries a non-empty advisory field
C19_HasAdvisory(data) ==
    data.received /\ (data.note # "" \/ data.error_message # "" \/ data.information # "")

\* C19: once a response of the call in progress carries a non-empty Note,
\* Error Message or Information field, the call is over and has raised;
\* the request that met the advisory is the last of the call, none was
\* issued twice, and an advisory quote response is not followed by a
\* daily-series request.
C19_AdvisoryFailsCall ==
    /\ C19_HasAdvisory(av_quote) =>
          /\ pc = "av_idle"
          /\ av_result = Raised("RuntimeError")
          /\ av_trace = <<"acquire", "GLOBAL_QUOTE">>
          /\ ~av_daily.received
    /\ C19_HasAdvisory(av_daily) =>
          /\ pc = "av_idle"
          /\ av_result = Raised("RuntimeError")
          /\ av_trace = <<"acquire", "GLOBAL_QUOTE", "acquire", "TIME_SERIES_DAILY">>
    /\ C19_HasAdvisory(av_fx) =>
          /\ pc = "av_idle"
          /\ av_result = Raised("RuntimeError")
          /\ av_trace = <<"acquire", "CURRENCY_EXCHANGE_RATE">>

\* a quote response with an Information field and a parseable price: the
\* call has failed after its single request
C19_AdvisoryBesideAPrice ==
    /\ C17_Finished("get_price")
    /\ av_quote.information # ""
    /\ IsNum(av_quote.price)
    /\ av_result.k = "raised"
    /\ Len(av_trace) = 2

\* what the j-th source of the fixed order gives: a value, or None when it
\* raises or has nothing
C20_Value(j) ==
    IF j = 1 THEN FastInfoPrice(yf_ticker.fast)
    ELSE IF j = 2 THEN HistoryClose(yf_ticker.hist)
    ELSE InfoPrice(yf_ticker.info)

\* the sources that give a value
C20_Yielding == {j \in 1..3 : C20_Value(j).k # "none"}

\* C20: get_price and get_fx_rate consult fast_info, then one day of
\* history, then info, in that order; a source is consulted only after all
\* earlier ones raised or gave nothing, and none of these ends the call.
\* When the call is over, its result is the value of the first source that
\* gives one, no later source was consulted, and it has raised exactly when
\* no source gives a value.
C20_SourcesInOrder ==
    /\ Len(yf_consulted) <= 3
    /\ \A j \in 1..Len(yf_consulted) :
          /\ yf_consulted[j] = <<"fast_info", "history", "info">>[j]
          /\ j < Len(yf_consulted) => C20_Value(j).k = "none"
    /\ (entry = "yfinance" /\ pc # "yf_done") =>
          /\ yf_result = NoResult
          /\ \A j \in 1..Len(yf_consulted) : C20_Value(j).k = "none"
    /\ pc = "yf_done" =>
          IF C20_Yielding = {}
          THEN /\ yf_result = Raised("RuntimeError")
               /\ Len(yf_consulted) = 3
          ELSE LET first == CHOOSE j \in C20_Yielding : \A l \in C20_Yielding : j <= l
               IN  /\ yf_result = Returned(C20_Value(first))
                   /\ Len(yf_consulted) = first

\* fast_info raises, the history holds no close, info has the price 152:
\* the call returns 152 after consulting all three
C20_InfoAfterTwoFailures ==
    /\ pc = "yf_done"
    /\ yf_ticker.fast.raises
    /\ yf_ticker.hist.closes = <<NaN>>
    /\ yf_consulted = <<"fast_info", "history", "info">>
    /\ yf_result = Returned(Num(152))

\* the monthly series of a ticker: its bars that have a close
C21_Series(ticker) == SelectSeq(ticker.bars, LAMBDA e : ~IsNaN(e.close))

\* the k-th entry from the end of the monthly series, None ("unavailable")
\* when fetching raises or the series has fewer than k observations
C21_Expected(ticker, k) ==
    LET ser == C21_Series(ticker)
    IN  IF ticker.raises \/ Len(ser) < k THEN None ELSE ser[Len(ser) + 1 - k].close

\* C21: previous_month_close returns the second-to-last entry of the monthly
\* series and previous_year_close the 13th-from-last; with fewer than 2
\* (resp. 13) observations, or when fetching raises, the call returns None
\* and raises nothing.
C21_PreviousCloses ==
    (entry = "previous_close" /\ pc = "pv_done") =>
        /\ pv_method = "previous_month_close" =>
              pv_result = Returned(C21_Expected(pv_ticker, 2))
        /\ pv_method = "previous_year_close" =>
              pv_result = Returned(C21_Expected(pv_ticker, 13))

\* previous_year_close answered the first of 13 observations of a history
\* of 14 months, one of them without a close
C21_YearCloseOfThirteen ==
    /\ entry = "previous_close"
    /\ pc = "pv_done"
    /\ pv_method = "previous_year_close"
    /\ ~pv_ticker.raises
    /\ Len(pv_ticker.bars) = 14
    /\ Len(C21_Series(pv_ticker)) = 13
    /\ IsNaN(pv_ticker.bars[1].close)
    /\ pv_result = Returned(Num(102))

\* the provider is a YFinanceProvider whose three previous-close calls for
\* the symbol all returned
C22_Answered(sym) ==
    /\ UseYf(provider)
    /\ provider.previous_day_close[sym].k # "raise"
    /\ provider.previous_month_close[sym].k # "raise"
    /\ provider.previous_year_close[sym].k # "raise"

\* the FX pair's previous close of a granularity, None when the call raised
C22_FxPrevious(granularity) ==
    LET a == provider[granularity][FxTicker]
    IN  IF a.k = "raise" THEN None ELSE a

\* the previous value of the holding's price in a currency: the provider's
\* previous close in the holding's own currency, its conversion with the FX
\* pair's previous close of the same granularity in the other one
C22_Previous(h, granularity, ccy) ==
    LET native == provider[granularity][h.symbol]
        fxp == C22_FxPrevious(granularity)
    IN  IF Ccy(h) = ccy THEN native
        ELSE IF native.k = "none" \/ fxp.k = "none" \/ IsZero(fxp) THEN None
        ELSE IF Ccy(h) = "USD" THEN Mul(native, fxp) ELSE Div(native, fxp)

\* (current - previous) / previous, not-a-number for a previous value that
\* is None, zero or no finite number and for a current price that is nan
C22_Change(cur, prev) ==
    IF prev.k = "none" \/ IsZero(prev) \/ ~IsNum(prev) \/ IsNaN(cur) THEN NaN
    ELSE Div(Sub(cur, prev), prev)

C22_Metrics(r) ==
    <<r.usd_dod, r.usd_mom, r.usd_yoy, r.jpy_dod, r.jpy_mom, r.jpy_yoy>>

\* C22: each change metric of a row is (current - previous) / previous of
\* the corresponding price, not-a-number whenever the previous value is
\* None, zero or non-finite or the current price is not-a-number; the
\* computation never raises (every metric is a number or nan).
C22_ChangeMetrics ==
    \A k \in 1..Len(rows) :
        LET r == rows[k]
            h == holdings[k]
        IN  /\ \A j \in 1..6 : C22_Metrics(r)[j].k \in {"num", "nan"}
            /\ C22_Answered(h.symbol) =>
                /\ r.usd_dod = C22_Change(r.usd_price, C22_Previous(h, "previous_day_close", "USD"))
                /\ r.usd_mom = C22_Change(r.usd_price, C22_Previous(h, "previous_month_close", "USD"))
                /\ r.usd_yoy = C22_Change(r.usd_price, C22_Previous(h, "previous_year_close", "USD"))
                /\ r.jpy_dod = C22_Change(r.jpy_price, C22_Previous(h, "previous_day_close", "JPY"))
                /\ r.jpy_mom = C22_Change(r.jpy_price, C22_Previous(h, "previous_month_close", "JPY"))
                /\ r.jpy_yoy = C22_Change(r.jpy_price, C22_Previous(h, "previous_year_close", "JPY"))

\* AAPL at 150 USD against previous closes of nan (day), 0 (month) and 60
\* (year): the day and month changes are nan, the year change is 3/2
C22_NaNZeroAndFinite ==
    /\ Len(rows) >= 1
    /\ holdings[1].symbol = "AAPL"
    /\ rows[1].currency = "USD"
    /\ rows[1].usd_price = Num(150)
    /\ C22_Answered("AAPL")
    /\ IsNaN(provider.previous_day_close["AAPL"])
    /\ IsZero(provider.previous_month_close["AAPL"])
    /\ IsNaN(rows[1].usd_dod)
    /\ IsNaN(rows[1].usd_mom)
    /\ rows[1].usd_yoy = Rat(3, 2)

\* C23: the counterpart-currency previous close of each granularity (day,
\* month, year) is the instrument's previous close converted with the FX
\* pair's previous close of that same granularity, never with today's
\* rate; when that previous FX value is None or zero the counterpart
\* metric of the granularity is not-a-number while the native-currency
\* metric is still computed from the instrument's previous close.
C23_ContemporaneousFx ==
    \A k \in 1..Len(rows) :
        LET r == rows[k]
            h == holdings[k]
            usd == Ccy(h) = "USD"
            native == IF usd THEN <<r.usd_dod, r.usd_mom, r.usd_yoy>>
                      ELSE <<r.jpy_dod, r.jpy_mom, r.jpy_yoy>>
            other == IF usd THEN <<r.jpy_dod, r.jpy_mom, r.jpy_yoy>>
                     ELSE <<r.usd_dod, r.usd_mom, r.usd_yoy>>
            native_price == IF usd THEN r.usd_price ELSE r.jpy_price
            other_price == IF usd THEN r.jpy_price ELSE r.usd_price
            granularity == <<"previous_day_close", "previous_month_close", "previous_year_close">>
        IN  C22_Answered(h.symbol) =>
              \A g \in 1..3 :
                LET prev == provider[granularity[g]][h.symbol]
                    fxp == C22_FxPrevious(granularity[g])
                IN  /\ native[g] = C22_Change(native_price, prev)
                    /\ (fxp.k = "none" \/ IsZero(fxp)) => IsNaN(other[g])
                    /\ (IsNum(fxp) /\ ~IsZero(fxp) /\ IsNum(prev)) =>
                          other[g] = C22_Change(other_price,
                                        IF usd THEN Mul(prev, fxp) ELSE Div(prev, fxp))

\* AAPL at 150 USD under today's rate of 150, previous closes 120 / 100 / 60
\* and previous rates 100 / 125 / 0: jpy_dod = (22500 - 12000) / 12000,
\* jpy_mom = (22500 - 12500) / 12500, jpy_yoy is nan and usd_yoy is 3/2
C23_PreviousRatesUsed ==
    /\ Len(rows) >= 1
    /\ holdings[1].symbol = "AAPL"
    /\ rows[1].currency = "USD"
    /\ usd_jpy = Num(150)
    /\ rows[1].jpy_price = Num(22500)
    /\ provider.previous_day_close[FxTicker] = Num(100)
    /\ provider.previous_year_close[FxTicker] = Num(0)
    /\ rows[1].jpy_dod = Rat(7, 8)
    /\ rows[1].jpy_mom = Rat(4, 5)
    /\ IsNaN(rows[1].jpy_yoy)
    /\ rows[1].usd_yoy = Rat(3, 2)

\* the number of calls of a method for a symbol the provider has received
C24_Count(method, sym) ==
    Cardinality({j \in 1..Len(calls) : calls[j] = <<method, sym>>})

\* C24: within one build_rows run get_name and get_per are each issued to
\* the provider at most once per distinct symbol, even when the holdings
\* list holds the same symbol several times.
C24_EnrichmentOncePerSymbol ==
    \A sym \in Symbols :
        /\ C24_Count("get_name", sym) <= 1
        /\ C24_Count("get_per", sym) <= 1

\* the symbols of the first n holdings, each once, in the order of their
\* first appearance
C25_FirstAppearances(n) ==
    LET first == SelectSeq([j \in 1..n |-> j],
                           LAMBDA j : \A l \in 1..(j - 1) : holdings[l].symbol # holdings[j].symbol)
    IN  [j \in 1..Len(first) |-> <<"get_price", holdings[first[j]].symbol>>]

\* the get_price calls the provider has received, in order
C25_GetPriceCalls == SelectSeq(calls, LAMBDA c : c[1] = "get_price")

\* fetch_prices has returned its mapping to main()
C25_Returned ==
    /\ entry = "main"
    /\ \/ pc = "fetch_prices" /\ fi > Len(holdings)
       \/ pc \in {"call_build_rows", "br_start", "br_loop", "sort", "format_report", "emit"}
       \/ pc = "done" /\ failed_at \in {"get_fx_rate", "build_rows"}
       \/ pc = "done" /\ status = ExitOk

\* C25: fetch_prices calls provider.get_price exactly once per distinct
\* symbol, in the order of the symbols' first appearance in the holdings
\* list, and returns a mapping whose key set is the set of held symbols; a
\* get_price call that fails propagates, and no mapping is returned (main()
\* goes on to nothing that reads one).
C25_FetchPrices ==
    /\ (entry = "main" /\ pc = "fetch_prices") =>
          C25_GetPriceCalls = C25_FirstAppearances(fi - 1)
    /\ C25_Returned =>
          /\ C25_GetPriceCalls = C25_FirstAppearances(Len(holdings))
          /\ {s \in Symbols : prices[s].k # "none"}
                = {holdings[j].symbol : j \in 1..Len(holdings)}
    /\ (entry = "main" /\ failed_at = "get_price") =>
          /\ pc = "done"
          /\ exc = "RuntimeError"
          /\ status = ExitError
          /\ usd_jpy_rate = None
          /\ ~ret.returned
          /\ rows = <<>>
          /\ stdout = <<>>

\* two lots of one symbol: one get_price call, one key
C25_RepeatedSymbolFetchedOnce ==
    /\ C25_Returned
    /\ Len(holdings) = 2
    /\ holdings[1].symbol = "AAPL"
    /\ holdings[2].symbol = "AAPL"
    /\ C25_GetPriceCalls = << <<"get_price", "AAPL">> >>
    /\ {s \in Symbols : prices[s].k # "none"} = {"AAPL"}

\* the row build_rows makes of a holding when it is given no provider
C26_Plain(h) == RowOf(h, prices, usd_jpy, PlainProvider("none"), NoFxPrev, EmptyCache)

C26_AllSupported == \A k \in 1..Len(holdings) : Ccy(holdings[k]) \in {"USD", "JPY"}

\* C26: whatever the provider's enrichment calls do (raise or return None,
\* for the instrument or for the FX pair), build_rows with supported
\* currencies returns exactly one row per holding in input order, with the
\* price and value fields what they are without a provider; only the
\* optional fields degrade: the PER to not-a-number when get_per raises or
\* returns None, the name to None when get_name raises, the change metrics
\* to not-a-number.
C26_EnrichmentNonFatal ==
    /\ (C26_AllSupported /\ entry \in {"build_rows", "main"}) =>
          /\ pc # "br_raised"
          /\ failed_at # "build_rows"
    /\ \A k \in 1..Len(rows) :
          LET r == rows[k]
              h == holdings[k]
              per == provider.get_per[h.symbol]
              name == provider.get_name[h.symbol]
          IN  /\ r.symbol = h.symbol
              /\ r.shares = h.shares
              /\ r.currency = C26_Plain(h).currency
              /\ r.usd_price = C26_Plain(h).usd_price
              /\ r.jpy_price = C26_Plain(h).jpy_price
              /\ r.usd_value = C26_Plain(h).usd_value
              /\ r.jpy_value = C26_Plain(h).jpy_value
              /\ \A j \in 1..6 : C22_Metrics(r)[j].k \in {"num", "nan"}
              /\ UseYf(provider) =>
                    /\ r.per = IF per.k \in {"raise", "none"} THEN NaN ELSE per
                    /\ r.company_name = IF name = "raise" THEN "" ELSE name
    /\ ret.returned =>
          /\ ret.rows = rows
          /\ Len(ret.rows) = Len(holdings)

\* a provider whose calls raise: both rows are returned with their values,
\* without PER, name or year-over-year change
C26_ReturnedDespiteRaises ==
    /\ ret.returned
    /\ Len(ret.rows) = 2
    /\ UseYf(provider)
    /\ provider.get_per["AAPL"] = Raise
    /\ provider.get_name["AAPL"] = "raise"
    /\ provider.previous_day_close[FxTicker] = Raise
    /\ provider.previous_year_close["AAPL"] = Raise
    /\ ret.rows[1].symbol = "AAPL"
    /\ ret.rows[1].usd_value = Num(1500)
    /\ ret.rows[2].symbol = "7203.T"
    /\ ret.rows[2].jpy_value = Num(15000)
    /\ IsNaN(ret.rows[1].per)
    /\ ret.rows[1].company_name = ""
    /\ IsNaN(ret.rows[1].usd_yoy)

\* the symbols the ledger stores
C27_Stored(l) == {s \in LedgerSymbols : l[s].present}

\* the non-empty symbols of the CSV file
C27_CsvSymbols == {Strip(sy_file[j].symbol) : j \in 1..Len(sy_file)} \ {""}

\* the last row of the CSV file that carries the symbol
C27_LastRow(sym) ==
    sy_file[CHOOSE j \in 1..Len(sy_file) :
                /\ Strip(sy_file[j].symbol) = sym
                /\ \A l \in (j + 1)..Len(sy_file) : Strip(sy_file[l].symbol) # sym]

\* the run has ended with every API call having succeeded
C27_Succeeded == entry = "sync" /\ pc = "sy_done" /\ sy_status = 0

\* the ledger holds the CSV: its symbols, each with the shares of its last row
C27_LedgerIsCsv ==
    /\ C27_Stored(ledger) = C27_CsvSymbols
    /\ \A sym \in C27_CsvSymbols :
          LET shares == C27_LastRow(sym).shares
          IN  ledger[sym].shares = IF shares.k \in {"num", "nan"} THEN shares ELSE Num(0)

\* in upsert mode no DELETE is issued and no symbol is lost
C27_UpsertKeeps ==
    (entry = "sync" /\ sy_args.mode = "upsert") =>
        /\ \A j \in 1..Len(sy_requests) : sy_requests[j][1] # "DELETE"
        /\ C27_Stored(ledger_before) \subseteq C27_Stored(ledger)

\* C27: after a run with --mode replace in which every API call succeeds,
\* the set of symbols stored in the ledger equals the set of non-empty
\* symbols of the CSV (ledger symbols absent from the CSV deleted, every CSV
\* row upserted, the last row winning for a repeated symbol); with --mode
\* upsert no DELETE is ever issued, so every symbol present before the run
\* is still present after it.
C27_Sync ==
    /\ (C27_Succeeded /\ sy_args.mode = "replace") => C27_LedgerIsCsv
    /\ C27_UpsertKeeps

\* C27, for the runs that send their requests: the same, for a run with
\* --mode replace and without --dry-run.
C27_SyncWithoutDryRun ==
    /\ (C27_Succeeded /\ sy_args.mode = "replace" /\ ~sy_args.dry_run) => C27_LedgerIsCsv
    /\ C27_UpsertKeeps

\* a ledger of 7203.T and AAPL replaced by a CSV of two AAPL rows: 7203.T
\* is deleted and AAPL holds the 20 shares of the second row
C27_ReplacedByLastRow ==
    /\ C27_Succeeded
    /\ sy_args = [mode |-> "replace", dry_run |-> FALSE]
    /\ C27_Stored(ledger_before) = {"7203.T", "AAPL"}
    /\ sy_file = <<CsvFileRow("AAPL", Num(10), "usd"), CsvFileRow("AAPL", Num(20), "")>>
    /\ sy_requests = << <<"DELETE", "7203.T">>, <<"POST", "AAPL">>, <<"POST", "AAPL">> >>
    /\ C27_Stored(ledger) = {"AAPL"}
    /\ ledger["AAPL"] = Entry(Num(20), "")

\* C28: for limit >= 1 every acquire() call sleeps at most once and appends
\* exactly one timestamp (the retained list ends with the timestamp of the
\* last call and is the tail of all timestamps appended); after any
\* sequence of calls the retained list is non-decreasing and never holds
\* more than `limit` entries.
C28_RetainedTimestamps ==
    entry = "rate_limiter" =>
        /\ sleeps \in {0, 1}
        /\ Len(times) <= limit
        /\ Len(times) <= Len(recorded)
        /\ (Len(recorded) >= 1) => (Len(times) >= 1)
        /\ times = SubSeq(recorded, Len(recorded) - Len(times) + 1, Len(recorded))
        /\ \A a, b \in 1..Len(times) : a <= b => times[a] <= times[b]

\* four calls on a limiter of 2: the fourth slept, two timestamps were
\* dropped and two are retained
C28_FullWindowAfterSleep ==
    /\ entry = "rate_limiter"
    /\ limit = 2
    /\ Len(recorded) = 4
    /\ sleeps = 1
    /\ Len(times) = 2
    /\ times[1] < times[2]

\* the month labels of the dataset: those of the FX pair's series
C29_Labels == [j \in 1..Len(fx_pairs) |-> fx_pairs[j][1]]

\* the holding's raw price of the j-th month: the close its series has for
\* the label, nan when it has none
C29_Raw(k, j) ==
    IF \E l \in 1..Len(sers[k]) : sers[k][l][1] = C29_Labels[j]
    THEN DictGet(sers[k], C29_Labels[j])
    ELSE NaN

\* C29: build_monthly_dataset never rejects a holding for its currency: a
\* holding whose currency build_rows does not support (neither USD nor JPY)
\* raises nothing; its row keeps the currency code, its jpy_price is the raw
\* price and its usd_price the raw price divided by the month's FX rate
\* (nan when the rate is None or zero or the price is nan).
C29_UnsupportedCurrencyKept ==
    entry = "monthly" =>
        /\ exc # "ValueError"
        /\ \A k \in 1..Len(md_rows) :
              ~CurrencySupported(Ccy(holdings[k])) =>
                  /\ md_rows[k].currency = Ccy(holdings[k])
                  /\ Len(md_rows[k].jpy_price) = Len(fx_pairs)
                  /\ Len(md_rows[k].usd_price) = Len(fx_pairs)
                  /\ \A j \in 1..Len(fx_pairs) :
                        LET px == C29_Raw(k, j)
                            fx == DictGet(fx_pairs, C29_Labels[j])
                        IN  /\ md_rows[k].jpy_price[j] = px
                            /\ md_rows[k].usd_price[j] =
                                  IF fx.k = "none" \/ IsZero(fx) \/ IsNaN(px) THEN NaN
                                  ELSE Div(px, fx)
        /\ (pc = "md_returned" /\ ~dataset.none) => Len(dataset.rows) = Len(holdings)

\* a dataset returned with a EUR holding: 12 at a rate of 4 is 3 USD
C29_EurRowReturned ==
    /\ entry = "monthly"
    /\ pc = "md_returned"
    /\ Len(dataset.rows) >= 1
    /\ holdings[1] = Holding("SAP.DE", Num(3), "EUR")
    /\ dataset.rows[1].currency = "EUR"
    /\ \E j \in 1..Len(dataset.months) :
          /\ dataset.rows[1].jpy_price[j] = Num(12)
          /\ dataset.fx[j] = Num(4)
          /\ dataset.rows[1].usd_price[j] = Num(3)

\* the holding's share count is a whole number
C30_Integral(h) == h.shares.d = 1

\* value = shares * price, with the share count the row exports
C30_ExportedProduct(r, value, price) == value = Mul(Num(r.shares), price)

\* the value is the unrounded share count times the price, nan when the
\* price is
C30_Unrounded(h, value, price) ==
    value = IF IsNaN(price) THEN NaN ELSE Mul(h.shares, price)

\* the values and the shares field of every row built
C30_ValuesUnroundedSharesRounded ==
    \A k \in 1..Len(md_rows) :
        LET r == md_rows[k]
            h == holdings[k]
        IN  /\ r.shares = RoundHalfEven(h.shares.n, h.shares.d)
            /\ (2 * Abs(r.shares * h.shares.d - h.shares.n) <= h.shares.d)
            /\ Len(r.usd_value) = Len(r.usd_price)
            /\ Len(r.jpy_value) = Len(r.jpy_price)
            /\ \A j \in 1..Len(r.usd_price) : C30_Unrounded(h, r.usd_value[j], r.usd_price[j])
            /\ \A j \in 1..Len(r.jpy_price) : C30_Unrounded(h, r.jpy_value[j], r.jpy_price[j])

\* C30: in every row of the dataset usd_value[i] and jpy_value[i] are the
\* holding's unrounded share count times the price of month i (nan when the
\* price is), the row's shares field is the share count rounded to the
\* nearest integer, and value[i] = shares * price[i] holds for the exported
\* row exactly when the holding's share count is integral.
C30_ValueIsSharesTimesPrice ==
    entry = "monthly" =>
        /\ C30_ValuesUnroundedSharesRounded
        /\ \A k \in 1..Len(md_rows) :
              LET r == md_rows[k]
              IN  /\ \A j \in 1..Len(r.usd_price) :
                        IsNum(r.usd_price[j]) =>
                            (C30_ExportedProduct(r, r.usd_value[j], r.usd_price[j])
                                <=> C30_Integral(holdings[k]))
                  /\ \A j \in 1..Len(r.jpy_price) :
                        IsNum(r.jpy_price[j]) =>
                            (C30_ExportedProduct(r, r.jpy_value[j], r.jpy_price[j])
                                <=> C30_Integral(holdings[k]))

\* C30, for the months that have a price other than zero: the same, the
\* equivalence of value[i] = shares * price[i] with an integral share count
\* being stated for a price[i] that is a non-zero number.
C30_ValueIsSharesTimesNonZeroPrice ==
    entry = "monthly" =>
        /\ C30_ValuesUnroundedSharesRounded
        /\ \A k \in 1..Len(md_rows) :
              LET r == md_rows[k]
              IN  /\ \A j \in 1..Len(r.usd_price) :
                        (IsNum(r.usd_price[j]) /\ ~IsZero(r.usd_price[j])) =>
                            (C30_ExportedProduct(r, r.usd_value[j], r.usd_price[j])
                                <=> C30_Integral(holdings[k]))
                  /\ \A j \in 1..Len(r.jpy_price) :
                        (IsNum(r.jpy_price[j]) /\ ~IsZero(r.jpy_price[j])) =>
                            (C30_ExportedProduct(r, r.jpy_value[j], r.jpy_price[j])
                                <=> C30_Integral(holdings[k]))

\* 2.5 shares of 7203.T at 12 JPY: the row exports 2 shares and a value of 30
C30_FractionalShares ==
    /\ entry = "monthly"
    /\ pc = "md_returned"
    /\ Len(dataset.rows) >= 1
    /\ holdings[1] = Holding("7203.T", Rat(5, 2), "jpy")
    /\ dataset.rows[1].shares = 2
    /\ \E j \in 1..Len(dataset.months) :
          /\ dataset.rows[1].jpy_price[j] = Num(12)
          /\ dataset.rows[1].jpy_value[j] = Num(30)

====
